---- MODULE Spec2Model ----
(***************************************************************************)
(* The debate orchestration of the multi-agent prediction system:          *)
(* DebateService.run_debate and VoiceDebateService.run_voice_debate with   *)
(* their retry helper _generate_response, on top of UnifiedLLM.generate.   *)
(*                                                                         *)
(* A text is modelled by its length.  One step of the model is one piece   *)
(* of the run between two blocking calls (the upstream generation call,    *)
(* the speech sink).                                                       *)
(***************************************************************************)
EXTENDS Integers, Sequences, FiniteSets, TLC

(***************************************************************************)
(* Bounds of the model and constants of the program.                       *)
(***************************************************************************)
\* largest --rounds value explored for the text debate
MaxRounds == 2

\* run_voice_debate's default, the only value main ever runs it with
VoiceDefaultRounds == 2
\* variant: one attempt more
max_attempts_OneMore == 3 + 1
\* _generate_response: max_attempts = 3
max_attempts == 3
\* _generate_response: wait_time = 5
InitialWait == 5
\* _generate_response: wait_time += 5
WaitStep == 5
\* _generate_response: time.sleep(2)
ErrorSleep == 2
\* _generate_response: len(result) > 20
MinLen == 20
\* run_debate: conversation_history[-6:]
TextWindow == 6
\* run_voice_debate: conversation_history[-4:]
VoiceWindow == 4

\* PredictionService.all_agents, in their fixed order
AllAgents == <<"ChatGPT", "Grok", "Gemini">>
\* PredictionOutcome
Outcomes == {"YES", "NO"}

(***************************************************************************)
(* Values.                                                                 *)
(***************************************************************************)
\* Python's None, as the value of an Optional[str]
None == [isNone |-> TRUE, len |-> 0]
\* a str of n characters
Text(n) == [isNone |-> FALSE, len |-> n]
\* Python truthiness of an Optional[str]: None and "" are falsy
Truthy(s) == (~s.isNone) /\ s.len > 0

\* what the provider can answer to one upstream call: a reply of len characters
\* of which pad are leading or trailing whitespace, or an exception
ErrorKinds == {"RateLimited", "AuthError", "ProviderUnavailable"}
Replies ==
    { [kind |-> "reply", len |-> 0, pad |-> 0],
      [kind |-> "reply", len |-> 20, pad |-> 0],
      [kind |-> "reply", len |-> 21, pad |-> 1],
      [kind |-> "reply", len |-> 21, pad |-> 0],
      [kind |-> "reply", len |-> 22, pad |-> 1] }
UpstreamOutcomes ==
    Replies \cup { [kind |-> k, len |-> 0, pad |-> 0] : k \in ErrorKinds }

\* str.strip() of a reply
Strip(out) == Text(out.len - out.pad)

(***************************************************************************)
(* The prediction lists main can hand to a debate: run_battle walks        *)
(* all_agents in order and keeps one entry per agent whose forecast        *)
(* succeeded; main starts a debate only with a non-empty list.             *)
(***************************************************************************)
\* the entry run_battle appends for the validated forecast p of an agent:
\* probability in percent, rationale by its length, key_facts by their number
PredictionEntry(name, p) ==
    [agent_name |-> name, prediction |-> p.prediction,
     probability |-> p.probability, rationale |-> p.rationale,
     key_facts |-> p.key_facts]

\* a forecast of outcome o
Forecast(o) ==
    [prediction |-> o, probability |-> IF o = "YES" THEN 70 ELSE 30,
     rationale |-> 40, key_facts |-> 1]

RECURSIVE PickAgents(_, _, _)
PickAgents(S, o, k) ==
    IF k > Len(AllAgents) THEN <<>>
    ELSE (IF k \in S
            THEN <<PredictionEntry(AllAgents[k], Forecast(o[k]))>>
            ELSE <<>>) \o PickAgents(S, o, k + 1)

PredictionLists ==
    { PickAgents(S, o, 1) :
        S \in (SUBSET (1..Len(AllAgents))) \ {{}},
        o \in [1..Len(AllAgents) -> Outcomes] }

VARIABLES
    service,               \* "text": DebateService, "voice": VoiceDebateService
    llm,                   \* self._llm: "None" or "adapter" (is_valid() holds)
    predictions,           \* the predictions argument
    rounds,                \* the rounds argument
    pc,                    \* phase of the run
    at,                    \* position inside the current turn
    round_num,             \* round_num of the discussion loop
    idx,                   \* 1-based position of the current agent in predictions
    consensus_mode,        \* {} before it is computed, then {TRUE} or {FALSE}
    transcript,            \* transcript
    conversation_history,  \* conversation_history
    prompt,                \* the prompt of the current turn
    instruction,           \* the local instruction of the discussion loop
    attempt,               \* attempt of _generate_response's loop
    wait_time,             \* wait_time of _generate_response
    response,              \* what _generate_response returned for this turn
    calls,                 \* upstream generation calls issued in this turn
    slept,                 \* the time.sleep durations of this turn, in order
    notices,               \* console lines printed for this turn's failures
    upstream,              \* the provider's answer to this turn's latest call
    asked,                 \* the turns requested so far, in order
    skipped,               \* turns that ended without a recorded entry
    emitted,               \* agent lines shown (and spoken, in a voice debate)
    moderator,             \* the moderator's lines shown so far
    errors,                \* print_error calls
    result,                \* result: what generate returned to this turn's latest call
    returned               \* the value run_debate returned to its caller

\* the state of one UnifiedLLM and of the operation running on it
VARIABLES
    api_key,               \* self.api_key: its leading characters and its length
    model,                 \* self.model
    has_function_calling,  \* self.has_function_calling
    unified_llm,           \* "adapter" (is_valid() holds) or "invalid"
    api_type,              \* self.api_type
    op,                    \* the method running: generate, generate_with_tools
    step,                  \* where the running method is
    system_prompt,         \* whether a system_prompt is passed
    messages,              \* messages / contents: the context built so far
    tool_calls,            \* the tool calls of the first reply still to handle
    replies,               \* the provider's answers to the method's calls
    sent,                  \* the upstream calls issued by the running method
    executed,              \* the tool calls the running method has dispatched
    search,                \* what the latest execute_web_search of the tool loop met
    value,                 \* what the method returned to its caller
    invocations,           \* the methods invoked on the adapter so far, in order
    issued                 \* the upstream calls issued on the adapter so far

\* the state of one run_battle
VARIABLES
    configured,            \* the agents of all_agents whose has_valid_config() holds
    event_ok,              \* whether get_event_details finds the event
    battle,                \* where run_battle is
    active_agents,         \* active_agents
    cursor,                \* agents of active_agents the loop is done with
    payload,               \* what the latest agent's provider answered
    battle_predictions,    \* run_battle's list predictions
    agent_predictions,     \* agent_predictions
    failures,              \* print_error calls of run_battle
    battle_returned,       \* the pair run_battle returned
    attempted,             \* the generate_prediction calls made, in order
    agent_prompt,          \* what the latest generate_prediction put in its prompt
    main_pc                \* where main is: in the battle, left, or in the debate

\* one provider answer on its way from text to PredictionOutput
VARIABLES
    forecast,              \* the forecast the provider's answer serialises
    wrapping,              \* how the answer lays the payload out
    reply_text,            \* response.text
    cleaned,               \* what clean_json returned
    parsed,                \* PredictionOutput(**data), or the error raised
    json_step              \* "given", "cleaned" or "parsed"

\* one _setup_llm of a debate service; self._llm is the variable llm
VARIABLES
    env,                   \* os.getenv, by name
    key_pos,               \* 1-based position of key_name in _setup_llm's list
    llm_key,               \* the api_key of the adapter in self._llm
    tried,                 \* the names a UnifiedLLM was constructed for, in order
    setup_pc               \* "loop" inside _setup_llm, "done" after it

debateVars == << service, llm, predictions, rounds, pc, at, round_num, idx,
                 consensus_mode, transcript, conversation_history, prompt,
                 instruction, attempt, wait_time, response, calls, slept,
                 notices, upstream, asked, skipped, emitted, moderator,
                 errors, result, returned >>

adapterVars == << search, api_key, model, has_function_calling, unified_llm, api_type, op, step, system_prompt, messages,
                  tool_calls, replies, sent, executed, value, invocations,
                  issued >>

battleVars == << configured, event_ok, battle, active_agents, cursor, payload,
                 battle_predictions, agent_predictions, failures,
                 battle_returned, attempted, agent_prompt, main_pc >>

jsonVars == << forecast, wrapping, reply_text, cleaned, parsed, json_step >>

setupVars == << env, key_pos, llm_key, tried, setup_pc >>

\* what a debate leaves alone
otherVars == << adapterVars, battleVars, jsonVars, setupVars >>

vars == << debateVars, adapterVars, battleVars, jsonVars, setupVars >>

NoPrompt == [kind |-> "none", placeholder |-> FALSE, history |-> <<>>,
             instruction |-> "none"]
NotReturned == [kind |-> "running"]

\* no debate is running
DebateAtRest ==
    /\ pc = "NotStarted"
    /\ at = "idle"
    /\ round_num = 0
    /\ idx = 0
    /\ consensus_mode = {}
    /\ transcript = <<>>
    /\ conversation_history = <<>>
    /\ prompt = NoPrompt
    /\ instruction = "unset"
    /\ attempt = 0
    /\ wait_time = InitialWait
    /\ response = None
    /\ calls = 0
    /\ slept = <<>>
    /\ notices = 0
    /\ upstream = "none"
    /\ asked = <<>>
    /\ skipped = 0
    /\ emitted = <<>>
    /\ moderator = <<>>
    /\ errors = 0
    /\ result = None
    /\ returned = NotReturned

\* detect_api_type: len(api_key) < 10
MinDetectLen == 10
\* is_valid: len(self.api_key) > 20
MinValidLen == 20

\* API_CONFIGS, in its order
API_CONFIGS ==
    << [api_type |-> "groq", prefix |-> "gsk_", plen |-> 4,
        default_model |-> "llama-3.3-70b-versatile",
        has_function_calling |-> FALSE],
       [api_type |-> "xai", prefix |-> "xai-", plen |-> 4,
        default_model |-> "grok-2-latest", has_function_calling |-> TRUE],
       [api_type |-> "gemini", prefix |-> "AIza", plen |-> 4,
        default_model |-> "gemini-2.0-flash", has_function_calling |-> TRUE],
       [api_type |-> "openai", prefix |-> "sk-", plen |-> 3,
        default_model |-> "gpt-4o", has_function_calling |-> TRUE] >>

(***************************************************************************)
(* A key is modelled by its length and by how it starts: with one of the   *)
(* prefixes of API_CONFIGS, with the placeholder mark "your_", or with     *)
(* none of them ("": any other string, the empty one included).            *)
(***************************************************************************)
KeyLens == {0, 3, 9, 10, 20, 21}
KeyHeads ==
    { [text |-> "gsk_", n |-> 4], [text |-> "xai-", n |-> 4],
      [text |-> "AIza", n |-> 4], [text |-> "sk-", n |-> 3],
      [text |-> "your_", n |-> 5], [text |-> "", n |-> 0] }
ApiKeys ==
    UNION { { [head |-> h.text, len |-> l] :
                l \in { m \in KeyLens : m >= h.n } } : h \in KeyHeads }

\* api_key.startswith(prefix)
StartsWith(key, prefix, plen) == key.len >= plen /\ key.head = prefix

\* the first entry of API_CONFIGS from position k on whose prefix the key
\* starts with; the fallback when there is none
RECURSIVE MatchFrom(_, _)
MatchFrom(key, k) ==
    IF k > Len(API_CONFIGS)
      THEN [api_type |-> "groq", model |-> "llama-3.3-70b-versatile",
            has_function_calling |-> FALSE]
    ELSE IF StartsWith(key, API_CONFIGS[k].prefix, API_CONFIGS[k].plen)
      THEN [api_type |-> API_CONFIGS[k].api_type,
            model |-> API_CONFIGS[k].default_model,
            has_function_calling |-> API_CONFIGS[k].has_function_calling]
    ELSE MatchFrom(key, k + 1)

\* variant: the length is not looked at
detect_api_type_AnyLength(key) == MatchFrom(key, 1)

\* detect_api_type: (None, None, False) for an empty or short key
detect_api_type(key) ==
    IF key.len = 0 \/ key.len < MinDetectLen
      THEN [api_type |-> "None", model |-> "None",
            has_function_calling |-> FALSE]
      ELSE MatchFrom(key, 1)

\* variant: every key that was given an identity is valid
UnifiedLLM_is_valid_AnyDetected(key, t) == key.len # 0 /\ t # "None"

\* UnifiedLLM.is_valid for a key and the api_type detected from it
UnifiedLLM_is_valid(key, t) ==
    key.len # 0 /\ key.len > MinValidLen /\ t # "None"

\* UnifiedLLM.__init__: the identity of the adapter comes from its key
Constructed(key) ==
    /\ api_key = key
    /\ api_type = detect_api_type(key).api_type
    /\ model = detect_api_type(key).model
    /\ has_function_calling = detect_api_type(key).has_function_calling
    /\ unified_llm =
         IF UnifiedLLM_is_valid(key, detect_api_type(key).api_type)
           THEN "adapter" ELSE "invalid"

\* no method is running on the adapter
AdapterAtRest ==
    /\ op = "idle"
    /\ step = "idle"
    /\ messages = <<>>
    /\ tool_calls = <<>>
    /\ replies = <<>>
    /\ sent = <<>>
    /\ executed = <<>>
    /\ search = "none"
    /\ value = None
    /\ invocations = <<>>
    /\ issued = 0

\* the adapter of a specification that runs nothing on it
AdapterParked ==
    /\ Constructed([head |-> "gsk_", len |-> 21])
    /\ system_prompt = FALSE
    /\ AdapterAtRest

NoPayload == [kind |-> "none", complete |-> FALSE, prediction |-> "none",
              probability |-> 0, rationale |-> 0, key_facts |-> 0]

NoAgentPrompt == [agent |-> "none", event |-> "none", context |-> "none"]

\* run_battle is not entered yet
BattleAtRest ==
    /\ battle = "NotStarted"
    /\ active_agents = <<>>
    /\ cursor = 0
    /\ payload = NoPayload
    /\ battle_predictions = <<>>
    /\ agent_predictions = <<>>
    /\ failures = 0
    /\ battle_returned = NotReturned
    /\ attempted = <<>>
    /\ agent_prompt = NoAgentPrompt
    /\ main_pc = "battle"

NoForecast == [event_id |-> "", prediction |-> "none", probability |-> 0,
               key_facts |-> 0, rationale |-> 0]
NoWrapping == [fence |-> "none", gap |-> FALSE, lead |-> FALSE,
               trail |-> FALSE, indent |-> FALSE]
NotParsed == [error |-> "not parsed"]

\* variant: OPENAI_API_KEY is looked up first
KeyNames_OpenAIFirst ==
    << "OPENAI_API_KEY", "GEMINI_API_KEY", "CHATGPT_GROQ_KEY", "GROK_GROQ_KEY" >>

\* the names _setup_llm looks up, in its order
KeyNames ==
    << "GEMINI_API_KEY", "CHATGPT_GROQ_KEY", "GROK_GROQ_KEY", "OPENAI_API_KEY" >>

\* os.getenv of a name that is not set
Unset == [head |-> "None", len |-> 0]

\* the services are constructed already
SetupAtRest ==
    /\ env = [n \in { KeyNames[k] : k \in 1..Len(KeyNames) } |-> Unset]
    /\ key_pos = 1
    /\ llm_key = Unset
    /\ tried = <<>>
    /\ setup_pc = "done"

\* no provider answer is being parsed
JsonAtRest ==
    /\ forecast = NoForecast
    /\ wrapping = NoWrapping
    /\ reply_text = <<>>
    /\ cleaned = <<>>
    /\ parsed = NotParsed
    /\ json_step = "given"

\* the debate services are constructed and given their arguments
Init ==
    /\ service \in {"text", "voice"}
    /\ llm \in {"None", "adapter"}
    /\ predictions \in PredictionLists
    /\ rounds \in (IF service = "text" THEN 0..MaxRounds ELSE {VoiceDefaultRounds})
    /\ DebateAtRest
    /\ AdapterParked
    /\ configured = {}
    /\ event_ok = TRUE
    /\ BattleAtRest
    /\ JsonAtRest
    /\ SetupAtRest

(***************************************************************************)
(* UnifiedLLM.generate: one upstream call; any exception of the call is    *)
(* caught, reported on the console and turned into None.  The fields of    *)
(* the result: ret the returned value, raised the exception that leaves    *)
(* generate ("none": it returned), calls the upstream calls issued,        *)
(* notices the console lines printed.                                      *)
(***************************************************************************)
is_valid(adapter) == adapter = "adapter"

\* variant: a failed call is issued once more before None is returned
UnifiedLLM_generate_RetriesOnce(adapter, out) ==
    IF ~is_valid(adapter)
      THEN [ret |-> None, raised |-> "none", calls |-> 0, notices |-> 0]
    ELSE IF out.kind = "reply"
      THEN [ret |-> Strip(out), raised |-> "none", calls |-> 1, notices |-> 0]
      ELSE [ret |-> None, raised |-> "none", calls |-> 2, notices |-> 1]

UnifiedLLM_generate(adapter, out) ==
    IF ~is_valid(adapter)
      THEN [ret |-> None, raised |-> "none", calls |-> 0, notices |-> 0]
    ELSE IF out.kind = "reply"
      THEN [ret |-> Strip(out), raised |-> "none", calls |-> 1, notices |-> 0]
      ELSE [ret |-> None, raised |-> "none", calls |-> 1, notices |-> 1]

\* "429" in str(e) or "rate" in str(e).lower(): the provider's rate-limit
\* errors carry the status 429 in their text
IsRateLimitError(e) == e = "RateLimited"

(***************************************************************************)
(* One iteration of _generate_response's loop, after generate answered g   *)
(* on attempt a (0-based) with the current wait_time w: done when the      *)
(* iteration returns value; sleeps the time.sleep calls it makes; raised   *)
(* the exception that leaves _generate_response ("none": every exception   *)
(* is caught).                                                             *)
(***************************************************************************)
\* variant: the gate accepts a text of exactly MinLen characters
Acceptable_AtLeast(res) == Truthy(res) /\ res.len >= MinLen

\* if result and len(result) > 20
Acceptable(res) == Truthy(res) /\ res.len > MinLen

\* variant: a degenerate reply raises instead of falling through to the next
\* attempt
LoopIteration_RaisesOnDegenerate(g, a, w) ==
    IF g.raised = "none"
      THEN IF Acceptable(g.ret)
             THEN [done |-> TRUE, value |-> g.ret, sleeps |-> <<>>,
                   wait_time |-> w, raised |-> "none"]
             ELSE [done |-> FALSE, value |-> None, sleeps |-> <<>>,
                   wait_time |-> w, raised |-> "ValueError"]
    ELSE IF IsRateLimitError(g.raised)
      THEN IF a < max_attempts - 1
             THEN [done |-> FALSE, value |-> None, sleeps |-> <<w>>,
                   wait_time |-> w + WaitStep, raised |-> "none"]
             ELSE [done |-> FALSE, value |-> None, sleeps |-> <<>>,
                   wait_time |-> w, raised |-> "none"]
      ELSE [done |-> FALSE, value |-> None, sleeps |-> <<ErrorSleep>>,
            wait_time |-> w, raised |-> "none"]

LoopIteration(g, a, w) ==
    IF g.raised = "none"
      THEN IF Acceptable(g.ret)
             THEN [done |-> TRUE, value |-> g.ret, sleeps |-> <<>>,
                   wait_time |-> w, raised |-> "none"]
             ELSE [done |-> FALSE, value |-> None, sleeps |-> <<>>,
                   wait_time |-> w, raised |-> "none"]
    ELSE IF IsRateLimitError(g.raised)
      THEN IF a < max_attempts - 1
             THEN [done |-> FALSE, value |-> None, sleeps |-> <<w>>,
                   wait_time |-> w + WaitStep, raised |-> "none"]
             ELSE [done |-> FALSE, value |-> None, sleeps |-> <<>>,
                   wait_time |-> w, raised |-> "none"]
      ELSE [done |-> FALSE, value |-> None, sleeps |-> <<ErrorSleep>>,
            wait_time |-> w, raised |-> "none"]

\* variant: only all_yes counts as consensus
Consensus_AllYesOnly(preds) ==
    \A k \in 1..Len(preds) : preds[k].prediction = "YES"

\* all_yes or all_no
Consensus(preds) ==
    \/ \A k \in 1..Len(preds) : preds[k].prediction = "YES"
    \/ \A k \in 1..Len(preds) : preds[k].prediction = "NO"

\* variant: the whole history goes into the prompt
LastN_Whole(seq, n) == seq

\* seq[-n:]
LastN(seq, n) ==
    IF Len(seq) <= n THEN seq ELSE SubSeq(seq, Len(seq) - n + 1, Len(seq))

HistoryWindow == IF service = "text" THEN TextWindow ELSE VoiceWindow

\* variant: the adversarial framing starts in the first round
Instruction_FromFirstRound(r) ==
    IF (TRUE \in consensus_mode) /\ r >= 1 THEN "devils_advocate"
                                           ELSE "natural"

\* instruction, computed at the top of every discussion turn
Instruction(r) ==
    IF (TRUE \in consensus_mode) /\ r > 1 THEN "devils_advocate"
                                          ELSE "natural"

\* variant: whoever speaks first into an empty history opens
DiscussionPrompt_OpensWhenEmpty(r, i) ==
    IF conversation_history = <<>>
      THEN [kind |-> "open", placeholder |-> FALSE, history |-> <<>>,
            instruction |-> "none"]
      ELSE [kind |-> "react",
            placeholder |-> FALSE,
            history |-> LastN(conversation_history, HistoryWindow),
            instruction |-> Instruction(r)]

\* the prompt of the discussion turn of agent i (1-based) in round r; the
\* opening prompt of the first speaker does not embed the instruction
DiscussionPrompt(r, i) ==
    IF r = 1 /\ i = 1
      THEN [kind |-> "open", placeholder |-> FALSE, history |-> <<>>,
            instruction |-> "none"]
      ELSE [kind |-> "react",
            placeholder |-> (conversation_history = <<>>),
            history |-> LastN(conversation_history, HistoryWindow),
            instruction |-> Instruction(r)]

\* the prompt of a closing statement
ClosingPrompt ==
    [kind |-> "closing", placeholder |-> FALSE, history |-> <<>>,
     instruction |-> "none"]

(***************************************************************************)
(* Where the run goes next.                                                *)
(***************************************************************************)
Position(p, r, i) == [pc |-> p, round_num |-> r, idx |-> i]

\* variant: the text debate ends without closing statements
AfterDiscussion_NoClosing == Position("Concluded", 0, 0)

\* after the discussion loop: the closing statements of the text debate,
\* the moderator's last line of the voice debate
AfterDiscussion ==
    IF service = "text" THEN Position("Closing", 0, 1)
                        ELSE Position("Concluded", 0, 0)

\* the first turn after the moderator's opening
FirstPosition ==
    IF rounds >= 1 THEN Position("Discussing", 1, 1) ELSE AfterDiscussion

\* variant: the loops stop one agent short
NextPosition_OneShort ==
    IF pc = "Discussing"
      THEN IF idx < Len(predictions) - 1
             THEN Position("Discussing", round_num, idx + 1)
           ELSE IF round_num < rounds
             THEN Position("Discussing", round_num + 1, 1)
             ELSE AfterDiscussion
      ELSE IF idx < Len(predictions) - 1
             THEN Position("Closing", 0, idx + 1)
             ELSE Position("Concluded", 0, 0)

\* the turn after the current one
NextPosition ==
    IF pc = "Discussing"
      THEN IF idx < Len(predictions)
             THEN Position("Discussing", round_num, idx + 1)
           ELSE IF round_num < rounds
             THEN Position("Discussing", round_num + 1, 1)
             ELSE AfterDiscussion
      ELSE IF idx < Len(predictions)
             THEN Position("Closing", 0, idx + 1)
             ELSE Position("Concluded", 0, 0)

\* variant: the predictions are returned with their probabilities rounded
\* to even odds
GoTo_ReturnsAdjusted(pos, tr, mod) ==
    /\ pc' = pos.pc
    /\ round_num' = pos.round_num
    /\ idx' = pos.idx
    /\ at' = IF pos.pc = "Concluded" THEN "idle" ELSE "prompt"
    /\ moderator' = IF pos.pc = "Concluded" THEN Append(mod, "conclusion")
                                            ELSE mod
    /\ returned' = IF pos.pc = "Concluded"
                     THEN [kind |-> "debate",
                           predictions |->
                             [k \in 1..Len(predictions) |->
                                [predictions[k] EXCEPT !.probability = 50]],
                           transcript |-> tr]
                     ELSE returned

\* move to position pos; reaching the end emits the moderator's last line and
\* returns the transcript tr with the predictions
GoTo(pos, tr, mod) ==
    /\ pc' = pos.pc
    /\ round_num' = pos.round_num
    /\ idx' = pos.idx
    /\ at' = IF pos.pc = "Concluded" THEN "idle" ELSE "prompt"
    /\ moderator' = IF pos.pc = "Concluded" THEN Append(mod, "conclusion")
                                            ELSE mod
    /\ returned' = IF pos.pc = "Concluded"
                     THEN [kind |-> "debate", predictions |-> predictions,
                           transcript |-> tr]
                     ELSE returned

(***************************************************************************)
(* The steps of run_debate / run_voice_debate.                             *)
(***************************************************************************)
\* variant: a single prediction is enough
TooFewParticipants_LessThanOne(preds) == Len(preds) < 1

\* len(predictions) < 2
TooFewParticipants(preds) == Len(preds) < 2

\* entry: the participants check, then the consensus check
Enter ==
    /\ pc = "NotStarted"
    /\ IF TooFewParticipants(predictions)
         THEN /\ errors' = errors + 1
              /\ returned' = [kind |-> "empty"]
              /\ pc' = "Rejected"
              /\ UNCHANGED consensus_mode
         ELSE /\ consensus_mode' = {Consensus(predictions)}
              /\ pc' = "Opening"
              /\ UNCHANGED << errors, returned >>
    /\ UNCHANGED otherVars
    /\ UNCHANGED << instruction, service, llm, predictions, rounds, at, round_num, idx,
                    transcript, conversation_history, prompt, attempt,
                    wait_time, response, calls, slept, notices, upstream,
                    asked, skipped, emitted, moderator, result >>

\* the moderator opens; transcript and conversation_history start empty
ModeratorOpens ==
    /\ pc = "Opening"
    /\ transcript' = <<>>
    /\ conversation_history' = <<>>
    /\ GoTo(FirstPosition, <<>>,
            <<IF TRUE \in consensus_mode THEN "intro_consensus" ELSE "intro">>)
    /\ UNCHANGED otherVars
    /\ UNCHANGED << instruction, service, llm, predictions, rounds, consensus_mode, prompt,
                    attempt, wait_time, response, calls, slept, notices,
                    upstream, asked, skipped, emitted, errors, result >>

\* the locals of _generate_response and the record of its calls, as they are
\* when it is entered and after the turn that called it is over
LocalsDropped ==
    /\ attempt' = 0
    /\ wait_time' = InitialWait
    /\ calls' = 0
    /\ slept' = <<>>
    /\ notices' = 0
    /\ upstream' = "none"
    /\ result' = None

\* the turn's prompt is built and _generate_response is entered
BeginTurn ==
    /\ pc \in {"Discussing", "Closing"}
    /\ at = "prompt"
    /\ prompt' = IF pc = "Discussing" THEN DiscussionPrompt(round_num, idx)
                                      ELSE ClosingPrompt
    /\ asked' = Append(asked, [phase |-> pc, round_num |-> round_num,
                               agent |-> predictions[idx].agent_name])
    /\ instruction' = IF pc = "Discussing" THEN Instruction(round_num)
                                            ELSE instruction
    /\ LocalsDropped
    /\ response' = None
    /\ at' = IF llm = "None" THEN "returned" ELSE "attempt"
    /\ UNCHANGED otherVars
    /\ UNCHANGED << service, llm, predictions, rounds, pc, round_num, idx,
                    consensus_mode, transcript, conversation_history, skipped,
                    emitted, moderator, errors, returned >>

\* one iteration of _generate_response's loop: one call of generate
Attempt ==
    /\ pc \in {"Discussing", "Closing"}
    /\ at = "attempt"
    /\ \E out \in UpstreamOutcomes :
         LET g  == UnifiedLLM_generate(llm, out)
             it == LoopIteration(g, attempt, wait_time)
         IN  /\ upstream' = out.kind
             /\ result' = g.ret
             /\ calls' = calls + g.calls
             /\ notices' = notices + g.notices
             /\ slept' = slept \o it.sleeps
             /\ wait_time' = it.wait_time
             /\ IF it.raised # "none"
                  THEN \* the exception leaves run_debate: nothing is returned
                       /\ pc' = "Aborted"
                       /\ at' = "idle"
                       /\ UNCHANGED << attempt, response >>
                  ELSE IF it.done
                  THEN /\ response' = it.value
                       /\ at' = "returned"
                       /\ UNCHANGED << attempt, pc >>
                  ELSE /\ attempt' = attempt + 1
                       /\ response' = None
                       /\ at' = IF attempt + 1 < max_attempts
                                  THEN "attempt" ELSE "returned"
                       /\ UNCHANGED pc
    /\ UNCHANGED otherVars
    /\ UNCHANGED << instruction, service, llm, predictions, rounds, round_num, idx,
                    consensus_mode, transcript, conversation_history, prompt,
                    asked, skipped, emitted, moderator, errors, returned >>

\* variant: every line is spoken in the moderator's name
Spoken_AsModerator == [speaker |-> "Moderator", text |-> response.len]

\* the (agent_name, text) given to _print_agent_speech / _speak_agent, which
\* passes it on to speak
Spoken == [speaker |-> predictions[idx].agent_name, text |-> response.len]

\* if response: the agent's line is shown (and spoken, in a voice debate)
Emit ==
    /\ pc \in {"Discussing", "Closing"}
    /\ at = "returned"
    /\ Truthy(response)
    /\ emitted' = Append(emitted, Spoken)
    /\ at' = "emitted"
    /\ UNCHANGED otherVars
    /\ UNCHANGED << instruction, service, llm, predictions, rounds, pc, round_num, idx,
                    consensus_mode, transcript, conversation_history, prompt,
                    attempt, wait_time, response, calls, slept, notices,
                    upstream, asked, skipped, moderator, errors, result,
                    returned >>

\* the entry appended by the current turn
Entry == [speaker |-> predictions[idx].agent_name, text |-> response.len]

\* variant: the transcript keeps the latest line only
TranscriptAfter_LatestOnly(e) == << e >>

\* transcript.append({"speaker": agent_name, "text": response})
TranscriptAfter(e) == Append(transcript, e)

\* variant: closing statements go into the conversation history too
HistoryAfter_AlsoClosing(e) == Append(conversation_history, e)

\* conversation_history.append(...), a statement of the discussion loop only
HistoryAfter(e) ==
    IF pc = "Discussing" THEN Append(conversation_history, e)
                         ELSE conversation_history

\* the line is appended to the transcript and, in a discussion round, to the
\* conversation history; the loop goes on
Record ==
    /\ pc \in {"Discussing", "Closing"}
    /\ at = "emitted"
    /\ transcript' = TranscriptAfter(Entry)
    /\ conversation_history' = HistoryAfter(Entry)
    /\ GoTo(NextPosition, TranscriptAfter(Entry), moderator)
    /\ LocalsDropped
    /\ UNCHANGED otherVars
    /\ UNCHANGED << instruction, service, llm, predictions, rounds, consensus_mode, prompt,
                    response, asked, skipped, emitted, errors >>

\* response is None: nothing is recorded and the loop goes on
Skip ==
    /\ pc \in {"Discussing", "Closing"}
    /\ at = "returned"
    /\ ~Truthy(response)
    /\ skipped' = skipped + 1
    /\ GoTo(NextPosition, transcript, moderator)
    /\ LocalsDropped
    /\ UNCHANGED otherVars
    /\ UNCHANGED << instruction, service, llm, predictions, rounds, consensus_mode,
                    transcript, conversation_history, prompt, response,
                    asked, emitted, errors >>

Next ==
    \/ Enter
    \/ ModeratorOpens
    \/ BeginTurn
    \/ Attempt
    \/ Emit
    \/ Record
    \/ Skip

Spec == Init /\ [][Next]_vars

\* the run is sequential and every blocking call returns: a step that can be
\* taken is taken
FairSpec == Spec /\ WF_vars(Next)

\* rounds of the text debates that outgrow the history window
WindowRounds == MaxRounds + 1

\* a debate of all three agents that is long enough for the history to
\* outgrow the window: more rounds than the default for a text debate
WindowInit ==
    /\ service \in {"text", "voice"}
    /\ llm = "adapter"
    /\ predictions = PickAgents(1..Len(AllAgents),
                                [k \in 1..Len(AllAgents) |->
                                   IF k = 1 THEN "NO" ELSE "YES"], 1)
    /\ rounds = (IF service = "text" THEN WindowRounds ELSE VoiceDefaultRounds)
    /\ DebateAtRest
    /\ AdapterParked
    /\ configured = {}
    /\ event_ok = TRUE
    /\ BattleAtRest
    /\ JsonAtRest
    /\ SetupAtRest

WindowSpec == WindowInit /\ [][Next]_vars

(***************************************************************************)
(* UnifiedLLM on its own: generate and generate_with_tools, one method at  *)
(* a time.  One step is one piece of a method between two blocking calls   *)
(* (an upstream call, a web search).                                       *)
(***************************************************************************)
\* most tool calls explored in a first reply
MaxToolCalls == 2
\* most methods invoked on one adapter
MaxInvocations == 2

\* the api_type values detect_api_type gives to a usable key
ApiTypes == {"groq", "xai", "gemini", "openai"}

\* a tool call of a reply: the function it names (web_search is the only one
\* declared) and whether its arguments parse
ToolCallRequests == [name : {"web_search", "other"}, args_ok : BOOLEAN]

SeqsUpTo(S, n) == UNION { [1..k -> S] : k \in 0..n }

\* message.content / response.text as the provider sends it: None when the
\* reply has no text
NoContent == [isNone |-> TRUE, len |-> 0, pad |-> 0]
Contents ==
    { NoContent,
      [isNone |-> FALSE, len |-> 0, pad |-> 0],
      [isNone |-> FALSE, len |-> 30, pad |-> 1] }

\* the replies and failures of an upstream call that declares tools
ToolReplies ==
    [kind : {"reply"}, tool_calls : SeqsUpTo(ToolCallRequests, MaxToolCalls),
     content : Contents]
Failures ==
    { [kind |-> k, tool_calls |-> <<>>, content |-> NoContent] :
        k \in ErrorKinds }

\* the replies of a call that declares no tool
PlainReplies == { r \in ToolReplies : r.tool_calls = <<>> }

\* an outcome of generate's upstream call, in the shape of a reply
AsReply(out) ==
    [kind |-> out.kind, tool_calls |-> <<>>,
     content |-> IF out.kind = "reply"
                   THEN [isNone |-> FALSE, len |-> out.len, pad |-> out.pad]
                   ELSE NoContent]

\* content.strip(); on None the attribute error is caught and None returned
StripContent(c) == IF c.isNone THEN None ELSE Text(c.len - c.pad)

Msg(role, content, id) == [role |-> role, content |-> content, id |-> id]

\* the context of the first call: Gemini gets one text, the others a system
\* message (if a system_prompt is given) and a user message
InitialMessages(t, sys) ==
    IF t = "gemini"
      THEN <<Msg("user", IF sys THEN "system_prompt+prompt" ELSE "prompt", 0)>>
      ELSE (IF sys THEN <<Msg("system", "system_prompt", 0)>> ELSE <<>>)
           \o <<Msg("user", "prompt", 0)>>

\* variant: every provider is given the tool protocol
UsesToolCalling_Always(t) == t \in ApiTypes

\* generate_with_tools' dispatch on api_type
UsesToolCalling(t) == t \in {"gemini", "openai", "xai"}

Indexed(tcs) ==
    [k \in 1..Len(tcs) |->
       [id |-> k, name |-> tcs[k].name, args_ok |-> tcs[k].args_ok]]

\* variant: every tool call is handled twice
HandledToolCalls_Twice(t, tcs) == Indexed(tcs) \o Indexed(tcs)

\* the tool calls of the first reply that the method handles: OpenAI and xAI
\* loop over all of them, Gemini returns from inside its loop over the parts
\* after the first function call
HandledToolCalls(t, tcs) ==
    IF tcs = <<>> THEN <<>>
    ELSE IF t = "gemini" THEN <<Head(Indexed(tcs))>>
    ELSE Indexed(tcs)

\* variant: a reply without tool calls is followed up as well
AfterFirstReply_AlwaysFollowsUp(t, r) ==
    IF HandledToolCalls(t, r.tool_calls) = <<>> THEN "second_call" ELSE "tools"

\* if assistant_message.tool_calls / if part.function_call
AfterFirstReply(t, r) ==
    IF HandledToolCalls(t, r.tool_calls) = <<>> THEN "returned" ELSE "tools"

\* variant: a second reply that asks for a tool again is followed up again
AfterSecondReply_FollowsUp(r) ==
    IF r.tool_calls # <<>> THEN "second_call" ELSE "returned"

\* return final_response...strip(): the second reply ends the method
AfterSecondReply(r) == "returned"

\* the second call declares tools for Gemini only
SecondCallDeclaresTools(t) == t = "gemini"

\* the replies of the follow-up call: with the tools declared again the
\* model may ask for a tool again (one request stands for any number, the
\* method does not look at them)
SecondReplies(t) ==
    IF SecondCallDeclaresTools(t)
      THEN { r \in ToolReplies : Len(r.tool_calls) <= 1 }
      ELSE PlainReplies

\* execute_web_search answers with results or with its no-search notice
SearchOutcomes == {"results", "no_search_api"}

\* what a call of execute_web_search can meet: no TAVILY_API_KEY, a reply
\* other than 200, an exception of the request, a 200 reply whose body
\* cannot be read or formatted, a 200 reply with results
SearchConditions == {"no_key", "non_200", "exception", "bad_results", "ok"}

\* variant: an exception of the request leaves execute_web_search
execute_web_search_Raises(c) ==
    IF c = "ok" THEN "results"
    ELSE IF c \in {"exception", "bad_results"} THEN "raised"
    ELSE "no_search_api"

\* execute_web_search: the results on a 200 reply that formats; the notice
\* in every other case (the try block swallows every exception)
execute_web_search(c) == IF c = "ok" THEN "results" ELSE "no_search_api"

\* the text a reply without tool calls is answered with: OpenAI and xAI
\* return None for a missing or empty content
DirectText(t, c) ==
    IF t # "gemini" /\ (c.isNone \/ c.len = 0) THEN None ELSE StripContent(c)

\* the role a tool result is fed back under
ToolResultRole(t) == IF t = "gemini" THEN "user" ELSE "tool"

\* an adapter is constructed from a key; nothing runs on it yet
AdapterInit ==
    /\ \E key \in ApiKeys : Constructed(key)
    /\ system_prompt \in BOOLEAN
    /\ AdapterAtRest
    /\ service = "text"
    /\ llm = "None"
    /\ predictions = <<>>
    /\ rounds = 0
    /\ DebateAtRest
    /\ configured = {}
    /\ event_ok = TRUE
    /\ BattleAtRest
    /\ JsonAtRest
    /\ SetupAtRest

\* a method is entered: what the previous one left is dropped
Entered(m) ==
    /\ step \in {"idle", "returned"}
    /\ Len(invocations) < MaxInvocations
    /\ op' = m
    /\ invocations' = Append(invocations, m)
    /\ tool_calls' = <<>>
    /\ replies' = <<>>
    /\ sent' = <<>>
    /\ executed' = <<>>
    /\ search' = "none"
    /\ value' = None
    /\ UNCHANGED << api_key, model, has_function_calling >>
    /\ UNCHANGED << unified_llm, api_type, system_prompt, issued >>
    /\ UNCHANGED << debateVars, battleVars, jsonVars, setupVars >>

\* generate(prompt, system_prompt) is called
CallGenerate ==
    /\ Entered("generate")
    /\ messages' = InitialMessages(api_type, system_prompt)
    /\ step' = "call"

\* variant: the validity of the adapter is not looked at
GuardedByValidity_Never(adapter) == FALSE

\* if not self.is_valid(): return None, the first statement of
\* generate_with_tools and of generate_json
GuardedByValidity(adapter) == ~is_valid(adapter)

\* generate_with_tools(prompt, system_prompt) is called: an invalid adapter
\* returns None at once, a provider without the tool protocol goes through
\* generate
CallGenerateWithTools ==
    /\ Entered("generate_with_tools")
    /\ IF GuardedByValidity(unified_llm)
         THEN /\ messages' = <<>>
              /\ step' = "returned"
         ELSE /\ messages' = InitialMessages(api_type, system_prompt)
              /\ step' = IF UsesToolCalling(api_type) THEN "first_call"
                                                      ELSE "call"

\* the context of generate_json's native call: OpenAI and xAI always get a
\* system message demanding JSON, Gemini one text
JsonMessages(t, sys) ==
    IF t = "gemini"
      THEN <<Msg("user", IF sys THEN "system_prompt+prompt" ELSE "prompt", 0)>>
      ELSE <<Msg("system", IF sys THEN "system_prompt+json" ELSE "json", 0),
             Msg("user", "prompt", 0)>>

\* generate_json(prompt, system_prompt) is called: an invalid adapter returns
\* None at once, OpenAI, Gemini and xAI get their native JSON call, any other
\* provider goes through generate
CallGenerateJson ==
    /\ Entered("generate_json")
    /\ IF GuardedByValidity(unified_llm)
         THEN /\ messages' = <<>>
              /\ step' = "returned"
         ELSE IF api_type \in {"openai", "gemini", "xai"}
         THEN /\ messages' = JsonMessages(api_type, system_prompt)
              /\ step' = "json_call"
         ELSE /\ messages' = InitialMessages(api_type, system_prompt)
              /\ step' = "call"

\* the native JSON call and its return: the reply stripped, None when the
\* call raised
JsonCall ==
    /\ step = "json_call"
    /\ \E out \in UpstreamOutcomes :
         /\ sent' = Append(sent, [messages |-> messages, tools |-> FALSE])
         /\ replies' = Append(replies, AsReply(out))
         /\ value' = IF out.kind = "reply" THEN Strip(out) ELSE None
    /\ issued' = issued + 1
    /\ step' = "returned"
    /\ UNCHANGED << search, api_key, model, has_function_calling >>
    /\ UNCHANGED << unified_llm, api_type, op, system_prompt, messages,
                    tool_calls, executed, invocations >>
    /\ UNCHANGED << debateVars, battleVars, jsonVars, setupVars >>

\* generate's upstream call and its return
GenerateCall ==
    /\ step = "call"
    /\ \E out \in UpstreamOutcomes :
         LET g == UnifiedLLM_generate(unified_llm, out)
             c == [messages |-> messages, tools |-> FALSE]
         IN  /\ sent' = sent \o [k \in 1..g.calls |-> c]
             /\ replies' = replies \o [k \in 1..g.calls |-> AsReply(out)]
             /\ issued' = issued + g.calls
             /\ value' = g.ret
    /\ step' = "returned"
    /\ UNCHANGED << search, api_key, model, has_function_calling >>
    /\ UNCHANGED << unified_llm, api_type, op, system_prompt, messages,
                    tool_calls, executed, invocations >>
    /\ UNCHANGED << debateVars, battleVars, jsonVars, setupVars >>

\* the first call of the tool protocol, with the tools declared
FirstCall ==
    /\ step = "first_call"
    /\ \E r \in ToolReplies \cup Failures :
         /\ sent' = Append(sent, [messages |-> messages, tools |-> TRUE])
         /\ replies' = Append(replies, r)
         /\ issued' = issued + 1
         /\ IF r.kind # "reply"
              THEN \* the exception is caught by generate_with_tools
                   /\ value' = None
                   /\ step' = "returned"
                   /\ UNCHANGED << messages, tool_calls >>
              ELSE /\ tool_calls' = HandledToolCalls(api_type, r.tool_calls)
                   /\ step' = AfterFirstReply(api_type, r)
                   /\ IF HandledToolCalls(api_type, r.tool_calls) = <<>>
                        THEN /\ value' = DirectText(api_type, r.content)
                             /\ UNCHANGED messages
                        ELSE /\ value' = None
                             /\ messages' =
                                   Append(messages,
                                          Msg(IF api_type = "gemini"
                                                THEN "model" ELSE "assistant",
                                              "tool_calls", 0))
    /\ UNCHANGED << search, api_key, model, has_function_calling >>
    /\ UNCHANGED << unified_llm, api_type, op, system_prompt, executed,
                    invocations >>
    /\ UNCHANGED << debateVars, battleVars, jsonVars, setupVars >>

\* one pass of the loop over the tool calls: the arguments are parsed, the
\* function is run and its result is appended to the context
ExecuteTool ==
    /\ step = "tools"
    /\ tool_calls # <<>>
    /\ LET c == Head(tool_calls)
       IN  IF api_type # "gemini" /\ ~c.args_ok
             THEN \* json.loads raises; generate_with_tools catches it
                  /\ value' = None
                  /\ step' = "returned"
                  /\ search' = "none"
                  /\ UNCHANGED << messages, tool_calls, executed >>
             ELSE \E cond \in SearchConditions :
                    LET ran == c.name = "web_search"
                        fed == IF ran THEN execute_web_search(cond)
                                      ELSE "unknown_function"
                    IN  /\ search' = IF ran THEN cond ELSE "none"
                        /\ IF fed = "raised"
                             THEN \* an exception of the function would be
                                  \* caught by generate_with_tools
                                  /\ value' = None
                                  /\ step' = "returned"
                                  /\ UNCHANGED << messages, tool_calls,
                                                  executed >>
                             ELSE /\ executed' =
                                       Append(executed,
                                              [id |-> c.id, name |-> c.name,
                                               result |-> fed])
                                  /\ messages' =
                                       Append(messages,
                                              Msg(ToolResultRole(api_type),
                                                  fed, c.id))
                                  /\ tool_calls' = Tail(tool_calls)
                                  /\ step' = IF Tail(tool_calls) = <<>>
                                               THEN "second_call" ELSE "tools"
                                  /\ UNCHANGED value
    /\ UNCHANGED << api_key, model, has_function_calling >>
    /\ UNCHANGED << unified_llm, api_type, op, system_prompt, replies, sent,
                    invocations, issued >>
    /\ UNCHANGED << debateVars, battleVars, jsonVars, setupVars >>

\* the follow-up call with the tool results in its context
SecondCall ==
    /\ step = "second_call"
    /\ \E r \in SecondReplies(api_type) \cup Failures :
         /\ sent' = Append(sent, [messages |-> messages,
                                  tools |-> SecondCallDeclaresTools(api_type)])
         /\ replies' = Append(replies, r)
         /\ issued' = issued + 1
         /\ value' = IF r.kind = "reply" THEN StripContent(r.content)
                                         ELSE None
         /\ step' = AfterSecondReply(r)
    /\ search' = "none"
    /\ UNCHANGED << api_key, model, has_function_calling >>
    /\ UNCHANGED << unified_llm, api_type, op, system_prompt, messages,
                    tool_calls, executed, invocations >>
    /\ UNCHANGED << debateVars, battleVars, jsonVars, setupVars >>

AdapterNext ==
    \/ CallGenerate
    \/ CallGenerateWithTools
    \/ CallGenerateJson
    \/ JsonCall
    \/ GenerateCall
    \/ FirstCall
    \/ ExecuteTool
    \/ SecondCall

AdapterSpec == AdapterInit /\ [][AdapterNext]_vars

(***************************************************************************)
(* PredictionService.run_battle: every configured agent is asked for its   *)
(* forecast in the order of all_agents; the provider's answer is parsed    *)
(* and validated as a PredictionOutput.  A probability is written in       *)
(* percent, a rationale by its length, key_facts by their number.          *)
(***************************************************************************)
\* what generate_prediction can get from the provider: a failed call, a
\* text that is no JSON, a JSON object with a required field missing, or a
\* JSON object with all the fields of PredictionOutput
JsonPayloads ==
    [kind : {"json"}, complete : {TRUE},
     prediction : {"YES", "NO", "MAYBE"},
     probability : {-10, 0, 70, 100, 110},
     rationale : {40}, key_facts : {0, 1}]
Payloads ==
    JsonPayloads \cup
    { [NoPayload EXCEPT !.kind = k] : k \in ErrorKinds \cup {"not_json"} } \cup
    { [NoPayload EXCEPT !.kind = "json"] }

\* variant: the range of the probability is not checked
Validates_RangeUnchecked(p) ==
    /\ p.kind = "json"
    /\ p.complete
    /\ p.prediction \in Outcomes

\* PredictionOutput(**data) raises no ValidationError: every field is there,
\* prediction is a PredictionOutcome and 0.0 <= probability <= 1.0
Validates(p) ==
    /\ p.kind = "json"
    /\ p.complete
    /\ p.prediction \in Outcomes
    /\ p.probability >= 0
    /\ p.probability <= 100

\* the fields of the PredictionOutput built from a payload: as they came
PredictionOutput(p) ==
    [prediction |-> p.prediction, probability |-> p.probability,
     rationale |-> p.rationale, key_facts |-> p.key_facts]

\* _get_active_agents: the configured agents in the order of all_agents
RECURSIVE ActiveFrom(_, _)
ActiveFrom(S, k) ==
    IF k > Len(AllAgents) THEN <<>>
    ELSE (IF k \in S THEN <<AllAgents[k]>> ELSE <<>>) \o ActiveFrom(S, k + 1)

BattleInit ==
    /\ configured \in SUBSET (1..Len(AllAgents))
    /\ event_ok \in BOOLEAN
    /\ BattleAtRest
    /\ service = "text"
    /\ llm = "None"
    /\ predictions = <<>>
    /\ rounds = 0
    /\ DebateAtRest
    /\ AdapterParked
    /\ JsonAtRest
    /\ SetupAtRest

\* the event is fetched and the active agents are collected; without an
\* event or without an active agent run_battle returns the empty pair
StartBattle ==
    /\ battle = "NotStarted"
    /\ IF ~event_ok
         THEN /\ failures' = failures + 1
              /\ battle' = "Returned"
              /\ battle_returned' = [kind |-> "battle", predictions |-> <<>>,
                                     agent_predictions |-> <<>>]
              /\ UNCHANGED active_agents
         ELSE IF ActiveFrom(configured, 1) = <<>>
         THEN /\ failures' = failures + 1
              /\ battle' = "Returned"
              /\ battle_returned' = [kind |-> "battle", predictions |-> <<>>,
                                     agent_predictions |-> <<>>]
              /\ UNCHANGED active_agents
         ELSE /\ active_agents' = ActiveFrom(configured, 1)
              /\ battle' = "Predicting"
              /\ UNCHANGED << failures, battle_returned >>
    /\ UNCHANGED << configured, event_ok, cursor, payload, battle_predictions,
                    agent_predictions, attempted, agent_prompt, main_pc >>
    /\ UNCHANGED << debateVars, adapterVars, jsonVars, setupVars >>

\* variant: the first failed forecast ends the loop
NextCursor_StopsOnFailure(ok) ==
    IF ok THEN cursor + 1 ELSE Len(active_agents)

\* for agent in active_agents: the except clause falls through to the next
\* agent
NextCursor(ok) == cursor + 1

\* BaseAgent.research: skipped without a search key, the failure text when
\* the search raised, the sources found otherwise
ResearchResults == {"skipped", "failed", "results"}

\* variant: the prompt also lists the forecasts made so far
AgentPrompt_WithEarlierForecasts(name, ctx) ==
    [agent |-> name, event |-> "event", context |-> ctx,
     others |-> agent_predictions]

\* what generate_prediction of the agent puts into its prompt: its own
\* archetype, the fields of the event and the context its research returned
AgentPrompt(name, ctx) ==
    [agent |-> name, event |-> "event", context |-> ctx]

\* one pass of the loop over active_agents: generate_prediction, then the
\* two appends; any exception is reported and the loop goes on
Predict ==
    /\ battle = "Predicting"
    /\ cursor < Len(active_agents)
    /\ \E ctx \in ResearchResults :
         agent_prompt' = AgentPrompt(active_agents[cursor + 1], ctx)
    /\ \E p \in Payloads :
         /\ payload' = p
         /\ attempted' = Append(attempted,
                                [agent |-> active_agents[cursor + 1],
                                 raised |-> ~Validates(p)])
         /\ cursor' = NextCursor(Validates(p))
         /\ IF Validates(p)
              THEN /\ battle_predictions' =
                        Append(battle_predictions, PredictionOutput(p))
                   /\ agent_predictions' =
                        Append(agent_predictions,
                               PredictionEntry(active_agents[cursor + 1],
                                               PredictionOutput(p)))
                   /\ UNCHANGED failures
              ELSE /\ failures' = failures + 1
                   /\ UNCHANGED << battle_predictions, agent_predictions >>
    /\ UNCHANGED << configured, event_ok, battle, active_agents,
                    battle_returned, main_pc >>
    /\ UNCHANGED << debateVars, adapterVars, jsonVars, setupVars >>

\* the loop is over: both lists are returned
ReturnBattle ==
    /\ battle = "Predicting"
    /\ cursor = Len(active_agents)
    /\ battle' = "Returned"
    /\ battle_returned' = [kind |-> "battle",
                           predictions |-> battle_predictions,
                           agent_predictions |-> agent_predictions]
    /\ UNCHANGED << configured, event_ok, active_agents, cursor, payload,
                    battle_predictions, agent_predictions, failures,
                    attempted, agent_prompt, main_pc >>
    /\ UNCHANGED << debateVars, adapterVars, jsonVars, setupVars >>

\* variant: main goes on to the debate whatever run_battle returned
StartsDebate_Always(ret) == TRUE

\* main: if not predictions: return
StartsDebate(ret) == ret.predictions # <<>>

\* main after run_battle: without predictions it leaves; otherwise it
\* constructs the debate service and calls it with agent_predictions
MainAfterBattle ==
    /\ main_pc = "battle"
    /\ battle = "Returned"
    /\ IF StartsDebate(battle_returned)
         THEN /\ main_pc' = "debate"
              /\ predictions' = battle_returned.agent_predictions
              /\ service' \in {"text", "voice"}
              /\ llm' \in {"None", "adapter"}
              /\ rounds' \in (IF service' = "text" THEN 0..MaxRounds
                                                   ELSE {VoiceDefaultRounds})
         ELSE /\ main_pc' = "exit"
              /\ UNCHANGED << predictions, service, llm, rounds >>
    /\ UNCHANGED << pc, at, round_num, idx, consensus_mode, transcript,
                    conversation_history, prompt, instruction, attempt,
                    wait_time, response, calls, slept, notices, upstream,
                    asked, skipped, emitted, moderator, errors, result,
                    returned >>
    /\ UNCHANGED << configured, event_ok, battle, active_agents, cursor,
                    payload, battle_predictions, agent_predictions, failures,
                    battle_returned, attempted, agent_prompt >>
    /\ UNCHANGED << adapterVars, jsonVars, setupVars >>

BattleNext ==
    \/ StartBattle
    \/ Predict
    \/ ReturnBattle
    \/ MainAfterBattle

BattleSpec == BattleInit /\ [][BattleNext]_vars

(***************************************************************************)
(* From a provider's answer to a PredictionOutput:                         *)
(*     data = json.loads(clean_json(response.text.strip()))                *)
(*     return PredictionOutput(...) built from the fields of data          *)
(* A text is a sequence of tokens: a Markdown fence of three backticks,    *)
(* the word json, a run of whitespace, a run of prose, the braces of the   *)
(* JSON object and its members.  A fence tagged json is a fence followed   *)
(* at once by the word json.                                               *)
(***************************************************************************)
Tok(kind) == [kind |-> kind, key |-> "", str |-> "", num |-> 0]
Member(key, str, num) == [kind |-> "member", key |-> key, str |-> str, num |-> num]

Fence == << Tok("fence") >>
JsonFence == << Tok("fence"), Tok("json") >>
Ws == << Tok("ws") >>
Prose == << Tok("prose") >>

\* the forecasts a provider may serialise: valid PredictionOutput values
Forecasts ==
    [event_id : {"evt-1"}, prediction : Outcomes, probability : {0, 70, 100},
     key_facts : {0, 1, 3}, rationale : {0, 40}]

\* the layouts of an answer: bare, or inside a fenced block tagged json or untagged, with
\* or without line breaks inside the block and prose around it; the JSON
\* itself on one line or indented
Wrappings ==
    { w \in [fence : {"none", "json", "plain"}, gap : BOOLEAN, lead : BOOLEAN,
             trail : BOOLEAN, indent : BOOLEAN] :
        w.fence = "none" => (~w.gap /\ ~w.lead /\ ~w.trail) }

\* s with sep between its elements
RECURSIVE Join(_, _)
Join(s, sep) ==
    IF Len(s) <= 1 THEN s
    ELSE << Head(s) >> \o sep \o Join(Tail(s), sep)

\* the JSON text of a forecast: the fields of PredictionOutput in order,
\* the outcome by its value
Serialise(f, indent) ==
    LET members == << Member("event_id", f.event_id, 0),
                      Member("prediction", f.prediction, 0),
                      Member("probability", "", f.probability),
                      Member("key_facts", "", f.key_facts),
                      Member("rationale", "", f.rationale) >>
    IN  IF indent
        THEN << Tok("{") >> \o Ws \o Join(members, Ws) \o Ws \o << Tok("}") >>
        ELSE << Tok("{") >> \o members \o << Tok("}") >>

\* the answer that lays the payload out as w says
Wrap(body, w) ==
    LET gap == IF w.gap THEN Ws ELSE <<>>
        lead == IF w.lead THEN Prose \o Ws ELSE <<>>
        trail == IF w.trail THEN Ws \o Prose ELSE <<>>
    IN  IF w.fence = "none" THEN body
        ELSE lead \o (IF w.fence = "json" THEN JsonFence ELSE Fence)
                  \o gap \o body \o gap \o Fence \o trail

\* sep occurs in c at position i
HasAt(c, sep, i) ==
    /\ i + Len(sep) - 1 <= Len(c)
    /\ SubSeq(c, i, i + Len(sep) - 1) = sep

\* the position of the first occurrence of sep in c, 0 without one
Find(c, sep) ==
    IF \E i \in 1..Len(c) : HasAt(c, sep, i)
    THEN CHOOSE i \in 1..Len(c) :
             HasAt(c, sep, i) /\ \A j \in 1..(i - 1) : ~HasAt(c, sep, j)
    ELSE 0

\* sep in c
Contains(c, sep) == Find(c, sep) # 0

\* c.split(sep)[0]
SplitFirst(c, sep) ==
    IF Contains(c, sep) THEN SubSeq(c, 1, Find(c, sep) - 1) ELSE c

\* c.split(sep)[1], for a c that contains sep
SplitSecond(c, sep) ==
    SplitFirst(SubSeq(c, Find(c, sep) + Len(sep), Len(c)), sep)

\* c.strip()
RECURSIVE StripWs(_)
StripWs(c) ==
    IF c = <<>> THEN c
    ELSE IF Head(c).kind = "ws" THEN StripWs(Tail(c))
    ELSE IF c[Len(c)].kind = "ws" THEN StripWs(SubSeq(c, 1, Len(c) - 1))
    ELSE c

\* variant: every block is taken for an untagged block
clean_json_PlainOnly(c) ==
    IF Contains(c, Fence)
    THEN StripWs(SplitFirst(SplitSecond(c, Fence), Fence))
    ELSE c

clean_json(c) ==
    IF Contains(c, JsonFence)
    THEN StripWs(SplitFirst(SplitSecond(c, JsonFence), Fence))
    ELSE IF Contains(c, Fence)
    THEN StripWs(SplitFirst(SplitSecond(c, Fence), Fence))
    ELSE c

FieldNames == {"event_id", "prediction", "probability", "key_facts", "rationale"}

\* json.loads: whitespace between the tokens of the object is skipped; any
\* text that is not one JSON object raises JSONDecodeError
json_loads(c) ==
    LET body == SelectSeq(c, LAMBDA t : t.kind # "ws")
    IN  IF /\ Len(body) >= 2
           /\ body[1].kind = "{"
           /\ body[Len(body)].kind = "}"
           /\ \A i \in 2..(Len(body) - 1) : body[i].kind = "member"
        THEN [error |-> "none", members |-> SubSeq(body, 2, Len(body) - 1)]
        ELSE [error |-> "JSONDecodeError", members |-> <<>>]

\* the member of the object under a key
Get(members, key) ==
    LET at_key == SelectSeq(members, LAMBDA t : t.key = key)
    IN  at_key[Len(at_key)]

\* PredictionOutput(**data): every field is required, the outcome is a
\* PredictionOutcome and the probability lies in [0, 1]
FromData(d) ==
    IF d.error # "none" THEN [error |-> d.error]
    ELSE IF \/ \E k \in FieldNames : \A i \in 1..Len(d.members) : d.members[i].key # k
            \/ Get(d.members, "prediction").str \notin Outcomes
            \/ Get(d.members, "probability").num < 0
            \/ Get(d.members, "probability").num > 100
    THEN [error |-> "ValidationError"]
    ELSE [event_id |-> Get(d.members, "event_id").str,
          prediction |-> Get(d.members, "prediction").str,
          probability |-> Get(d.members, "probability").num,
          key_facts |-> Get(d.members, "key_facts").num,
          rationale |-> Get(d.members, "rationale").num]

\* a provider answers with a forecast in some layout
JsonInit ==
    /\ forecast \in Forecasts
    /\ wrapping \in Wrappings
    /\ reply_text = Wrap(Serialise(forecast, wrapping.indent), wrapping)
    /\ cleaned = <<>>
    /\ parsed = NotParsed
    /\ json_step = "given"
    /\ service = "text"
    /\ llm = "None"
    /\ predictions = <<>>
    /\ rounds = 0
    /\ DebateAtRest
    /\ AdapterParked
    /\ configured = {}
    /\ event_ok = TRUE
    /\ BattleAtRest
    /\ SetupAtRest

\* clean_json(response.text.strip())
CleanJson ==
    /\ json_step = "given"
    /\ cleaned' = clean_json(StripWs(reply_text))
    /\ json_step' = "cleaned"
    /\ UNCHANGED << forecast, wrapping, reply_text, parsed >>
    /\ UNCHANGED << debateVars, adapterVars, battleVars, setupVars >>

\* data = json.loads(...); return PredictionOutput(**data)
LoadPrediction ==
    /\ json_step = "cleaned"
    /\ parsed' = FromData(json_loads(cleaned))
    /\ json_step' = "parsed"
    /\ UNCHANGED << forecast, wrapping, reply_text, cleaned >>
    /\ UNCHANGED << debateVars, adapterVars, battleVars, setupVars >>

JsonNext ==
    \/ CleanJson
    \/ LoadPrediction

JsonSpec == JsonInit /\ [][JsonNext]_vars

(***************************************************************************)
(* _setup_llm of DebateService and of VoiceDebateService (the same code):  *)
(* the four names are looked up in order, an adapter is constructed for a  *)
(* value longer than 20 characters and kept if it is valid.                *)
(***************************************************************************)
\* the values a name may have in the environment
EnvKeys ==
    { Unset, [head |-> "", len |-> 0], [head |-> "AIza", len |-> 20],
      [head |-> "AIza", len |-> 21], [head |-> "gsk_", len |-> 21],
      [head |-> "your_", len |-> 21], [head |-> "", len |-> 21] }

\* _setup_llm: len(key) > 20
MinKeyLen == 20

\* if key and len(key) > 20
Qualifies(key) == key # Unset /\ key.len # 0 /\ key.len > MinKeyLen

\* __init__ has set self._llm = None and calls _setup_llm
SetupInit ==
    /\ env \in [{ KeyNames[k] : k \in 1..Len(KeyNames) } -> EnvKeys]
    /\ key_pos = 1
    /\ llm = "None"
    /\ llm_key = Unset
    /\ tried = <<>>
    /\ setup_pc = "loop"
    /\ service \in {"text", "voice"}
    /\ predictions = <<>>
    /\ rounds = 0
    /\ DebateAtRest
    /\ AdapterParked
    /\ configured = {}
    /\ event_ok = TRUE
    /\ BattleAtRest
    /\ JsonAtRest

\* what _setup_llm leaves alone
SetupUnchanged ==
    /\ UNCHANGED << service, predictions, rounds, pc, at, round_num, idx,
                    consensus_mode, transcript, conversation_history, prompt,
                    instruction, attempt, wait_time, response, calls, slept,
                    notices, upstream, asked, skipped, emitted, moderator,
                    errors, result, returned >>
    /\ UNCHANGED << adapterVars, battleVars, jsonVars >>

\* one iteration of the loop over the names
TryKey ==
    /\ setup_pc = "loop"
    /\ key_pos <= Len(KeyNames)
    /\ LET key == env[KeyNames[key_pos]]
       IN  IF Qualifies(key)
             THEN /\ tried' = Append(tried, KeyNames[key_pos])
                  /\ llm_key' = key
                  /\ IF UnifiedLLM_is_valid(key, detect_api_type(key).api_type)
                       THEN /\ llm' = "adapter"
                            /\ setup_pc' = "done"
                            /\ UNCHANGED key_pos
                       ELSE /\ llm' = "invalid"
                            /\ key_pos' = key_pos + 1
                            /\ UNCHANGED setup_pc
             ELSE /\ key_pos' = key_pos + 1
                  /\ UNCHANGED << llm, llm_key, tried, setup_pc >>
    /\ UNCHANGED env
    /\ SetupUnchanged

\* the loop found no valid adapter: self._llm = None
NoKeyQualified ==
    /\ setup_pc = "loop"
    /\ key_pos > Len(KeyNames)
    /\ llm' = "None"
    /\ llm_key' = Unset
    /\ setup_pc' = "done"
    /\ UNCHANGED << env, key_pos, tried >>
    /\ SetupUnchanged

SetupNext ==
    \/ TryKey
    \/ NoKeyQualified

SetupSpec == SetupInit /\ [][SetupNext]_vars

(***************************************************************************)
(* Properties.                                                             *)
(***************************************************************************)
N == Len(predictions)
Last(seq) == seq[Len(seq)]
\* 1 while a requested turn is neither recorded nor skipped yet
InProgress == IF at \in {"attempt", "returned", "emitted"} THEN 1 ELSE 0

\* C1: a run with fewer than 2 predictions fails at once: it returns the empty
\* result after one error line, the moderator never opens, no turn is
\* requested, no generation call is issued and nothing is recorded or shown.
C1_TooFewParticipantsFailFast ==
    N < 2 =>
      /\ pc \in {"NotStarted", "Rejected"}
      /\ moderator = <<>>
      /\ asked = <<>>
      /\ calls = 0
      /\ transcript = <<>>
      /\ emitted = <<>>
      /\ consensus_mode = {}
      /\ (pc = "Rejected" => returned = [kind |-> "empty"] /\ errors = 1)

C1_Witness == pc = "Rejected" /\ N = 1 /\ llm = "adapter"

\* C2: when the first generation call of a turn was answered with a rate-limit
\* error, exactly one wait has been made by the time the second call is due.
C2_OneWaitBeforeRetry ==
    (at = "attempt" /\ attempt = 1 /\ upstream = "RateLimited")
      => Len(slept) = 1

\* the phase changes the state machine of the orchestration allows
PhaseStepAllowed ==
    \/ pc' = pc /\ round_num' = round_num
    \/ pc = "NotStarted" /\ pc' = "Opening"
    \/ pc = "Opening" /\ rounds >= 1 /\ pc' = "Discussing" /\ round_num' = 1
    \/ pc = "Opening" /\ rounds < 1 /\ pc' = "Closing"
    \/ /\ pc = "Discussing" /\ round_num < rounds
       /\ pc' = "Discussing" /\ round_num' = round_num + 1
    \/ pc = "Discussing" /\ round_num = rounds /\ pc' = "Closing"
    \/ pc = "Closing" /\ pc' = "Concluded"

\* C3: a run with at least 2 predictions goes through NotStarted, Opening,
\* Discussing(1), ..., Discussing(R), Closing, Concluded in this order, no
\* phase skipped or revisited.
C3_PhaseOrder == [][N >= 2 => PhaseStepAllowed]_vars

\* C3, for the text debate alone: the phase order, with the moderator's opening
\* before every turn and the moderator's last line after all of them.
C3_TextPhaseOrder ==
    [][(service = "text" /\ N >= 2) =>
          /\ PhaseStepAllowed
          /\ (asked' # <<>> => moderator' # <<>>)
          /\ (Len(moderator') = 2 => pc' = "Concluded")]_vars

\* the turn requested k-th in a run: rounds first, agents in list order
Schedule(k) ==
    IF k <= N * rounds
      THEN [phase |-> "Discussing", round_num |-> ((k - 1) \div N) + 1,
            agent |-> predictions[((k - 1) % N) + 1].agent_name]
      ELSE [phase |-> "Closing", round_num |-> 0,
            agent |-> predictions[k - N * rounds].agent_name]

\* C4: the discussion turns are requested round by round, each agent once per
\* round in list order; the turn of round r at position i is the
\* ((r-1)*N + i)-th request, so round r+1 starts after every agent of round r;
\* a requested turn is recorded at most once.
C4_OneTurnPerAgentInOrder ==
    N >= 2 =>
      /\ \A k \in 1..Len(asked) :
            asked[k].phase = "Discussing" => (k <= N * rounds /\ asked[k] = Schedule(k))
      /\ (pc = "Discussing" =>
            Len(asked) = (round_num - 1) * N + idx - (IF at = "prompt" THEN 1 ELSE 0))
      /\ Len(transcript) + skipped + InProgress = Len(asked)
      /\ Len(conversation_history) <= Len(SelectSeq(asked, LAMBDA t : t.phase = "Discussing"))

C4_Witness ==
    /\ pc = "Discussing" /\ round_num = 2 /\ idx = 3 /\ at = "returned"
    /\ N = 3 /\ skipped > 0 /\ Len(transcript) > 0

\* C5: whatever the provider answers, a run that was admitted reaches
\* Concluded and returns the predictions and the transcript.
C5_AlwaysConcludes ==
    (pc = "Opening") ~>
        (/\ pc = "Concluded"
         /\ returned = [kind |-> "debate", predictions |-> predictions,
                        transcript |-> transcript])

C5_Witness ==
    /\ pc = "Concluded" /\ llm = "adapter"
    /\ skipped = Len(asked) /\ skipped > 0 /\ transcript = <<>>
    /\ returned.kind = "debate"

\* C6: a turn issues at most 3 generation calls; a turn whose attempts are used
\* up has issued exactly 3, ends with no response, and the run can go on.
C6_AtMostThreeCalls ==
    /\ calls <= 3
    /\ (at = "attempt" => calls = attempt /\ attempt < 3)
    /\ ((at = "returned" /\ ~Truthy(response)) =>
          /\ calls = (IF llm = "adapter" THEN 3 ELSE 0)
          /\ ENABLED Skip)

C6_Witness ==
    at = "returned" /\ calls = 3 /\ response = None /\ notices = 1

\* C7: in a text debate the transcript is at most N*R discussion turns (the
\* conversation history) followed by at most N closing turns; every requested
\* turn is recorded or skipped, and at the end recorded + skipped = N*R + N.
C7_TranscriptAccounting ==
    (service = "text" /\ N >= 2) =>
      /\ Len(conversation_history) <= N * rounds
      /\ Len(conversation_history) <= Len(transcript)
      /\ SubSeq(transcript, 1, Len(conversation_history)) = conversation_history
      /\ Len(transcript) - Len(conversation_history) <= N
      /\ (pc = "Discussing" => transcript = conversation_history)
      /\ Len(transcript) + skipped + InProgress = Len(asked)
      /\ (pc = "Concluded" =>
            /\ Len(transcript) + skipped = N * rounds + N
            /\ returned.transcript = transcript)

C7_Witness ==
    /\ service = "text" /\ pc = "Concluded" /\ N = 3 /\ rounds = 2
    /\ Len(conversation_history) = 5 /\ Len(transcript) = 7 /\ skipped = 2

\* C8: a turn that ends without a response has put at least one notice on the
\* console.
C8_SkipsAreNoticed ==
    (at = "returned" /\ ~Truthy(response)) => notices >= 1

\* C9, as amended: a returned text of 20 characters or fewer is never recorded
\* in the transcript or the conversation history; a returned text of more than
\* 20 characters is the turn's response and is recorded as the agent's turn.
C9_QualityGate ==
    /\ \A k \in 1..Len(transcript) : transcript[k].text > 20
    /\ \A k \in 1..Len(conversation_history) : conversation_history[k].text > 20
    /\ ((at = "returned" /\ calls > 0 /\ ~result.isNone) =>
          response = (IF result.len > 20 THEN result ELSE None))
    /\ ((at \in {"prompt", "idle"} /\ asked # <<>> /\ Truthy(response)) =>
          /\ transcript # <<>>
          /\ Last(transcript) = [speaker |-> Last(asked).agent,
                                 text |-> response.len]
          /\ (Last(asked).phase = "Discussing" =>
                /\ conversation_history # <<>>
                /\ Last(conversation_history) = Last(transcript)))

C9_Witness ==
    /\ at = "returned" /\ calls = 3 /\ result = Text(20) /\ response = None
    /\ transcript # <<>>

\* C9: a returned text of fewer than 20 characters is not the turn's response,
\* a returned text of 20 characters or more is.
C9_TwentyIsRecorded ==
    (at = "returned" /\ calls > 0 /\ ~result.isNone) =>
        response = (IF result.len >= 20 THEN result ELSE None)

\* C10: from the opening on, consensus_mode is the truth of "the outcomes of
\* the predictions form a set of one element"; it is set before the first turn
\* is requested and keeps that value to the end of the run.
C10_ConsensusIffOneOutcome ==
    /\ (pc \in {"NotStarted", "Rejected"} => consensus_mode = {})
    /\ (pc \notin {"NotStarted", "Rejected"} =>
          consensus_mode =
            {Cardinality({predictions[k].prediction : k \in 1..N}) = 1})
    /\ (asked # <<>> => consensus_mode # {})

C10_Witness ==
    /\ consensus_mode = {TRUE} /\ N = 3 /\ predictions[1].prediction = "NO"
    /\ pc = "Discussing" /\ round_num = 2

\* C11: in every discussion turn the framing instruction is the adversarial
\* devil's-advocate one exactly when the forecasts are unanimous and the round
\* is after the first, and the natural-response one otherwise; a reacting
\* prompt carries that instruction.
C11_FramingInstruction ==
    (pc = "Discussing" /\ at # "prompt") =>
        /\ (instruction = "devils_advocate") <=>
               (Consensus(predictions) /\ round_num > 1)
        /\ (instruction = "natural") <=>
               ~(Consensus(predictions) /\ round_num > 1)
        /\ prompt.kind = "react" => prompt.instruction = instruction

C11_Witness ==
    /\ pc = "Discussing"
    /\ at = "attempt"
    /\ round_num = 2
    /\ Consensus(predictions)
    /\ prompt.kind = "react"
    /\ prompt.instruction = "devils_advocate"

\* C12: no step of a debate changes a prediction's outcome, probability,
\* rationale or claims, and the predictions a concluded debate returns are
\* the ones it was given, in the same order.
C12_ForecastsLocked ==
    [][/\ predictions' = predictions
       /\ (pc' = "Concluded" /\ pc # "Concluded") =>
             returned'.predictions = predictions]_vars

C12_Witness ==
    /\ pc = "Concluded"
    /\ Len(transcript) > 0
    /\ returned.kind = "debate"
    /\ returned.predictions = predictions
    /\ \E k \in 1..Len(predictions) : predictions[k].probability = 70

(***************************************************************************)
(* Properties of the adapter.                                              *)
(***************************************************************************)
\* generate_with_tools has returned on a valid adapter of a provider with
\* the tool protocol
ToolsDone ==
    /\ op = "generate_with_tools"
    /\ step = "returned"
    /\ unified_llm = "adapter"
    /\ api_type \in {"gemini", "openai", "xai"}

\* the first call was answered by a reply
FirstReplied == Len(replies) >= 1 /\ replies[1].kind = "reply"

\* C13: when the first reply requests one tool and the second reply none,
\* generate_with_tools has issued exactly two upstream calls and run the tool
\* executor exactly once (the web search, when web_search is the tool named).
C13_OneToolTwoCalls ==
    (/\ ToolsDone
     /\ Len(replies) = 2
     /\ replies[1].kind = "reply"
     /\ Len(replies[1].tool_calls) = 1
     /\ replies[2].kind = "reply"
     /\ replies[2].tool_calls = <<>>) =>
        /\ Len(sent) = 2
        /\ Len(executed) = 1
        /\ executed[1].name = replies[1].tool_calls[1].name
        /\ (executed[1].name = "web_search") <=>
              (executed[1].result \in SearchOutcomes)

C13_Witness ==
    /\ ToolsDone
    /\ api_type = "gemini"
    /\ Len(replies) = 2
    /\ Len(replies[1].tool_calls) = 1
    /\ replies[2].kind = "reply"
    /\ replies[2].tool_calls = <<>>
    /\ Len(sent) = 2
    /\ Len(executed) = 1
    /\ executed[1].result = "results"
    /\ Truthy(value)

\* C14: when the first reply requests k >= 1 tool invocations, the executor
\* has run exactly k times, once per request in request order, by the time
\* the tool loop is left, and the follow-up call carries each result as a
\* tool response in its context.
C14_EveryRequestExecutedInOrder ==
    (/\ op = "generate_with_tools"
     /\ api_type \in {"gemini", "openai", "xai"}
     /\ FirstReplied
     /\ Len(replies[1].tool_calls) >= 1
     /\ step \in {"second_call", "returned"}) =>
        /\ Len(executed) = Len(replies[1].tool_calls)
        /\ \A k \in 1..Len(executed) : executed[k].id = k
        /\ Len(sent) = 2 =>
              \A k \in 1..Len(executed) :
                 \E j \in 1..Len(sent[2].messages) :
                    /\ sent[2].messages[j].id = k
                    /\ sent[2].messages[j].content = executed[k].result

\* C15: generate_with_tools issues at most two upstream calls, also when the
\* second reply asks for a tool again; it then returns the text of that
\* reply, or None when the reply has no text.
C15_BoundedUpstreamCalls ==
    /\ Len(sent) <= 2
    /\ step \in {"call", "first_call"} => Len(sent) = 0
    /\ step \in {"tools", "second_call"} => Len(sent) = 1
    /\ (ToolsDone /\ Len(replies) = 2 /\ replies[2].tool_calls # <<>>) =>
          value = StripContent(replies[2].content)

C15_Witness ==
    /\ ToolsDone
    /\ Len(replies) = 2
    /\ Len(replies[1].tool_calls) = MaxToolCalls
    /\ replies[2].tool_calls # <<>>
    /\ Len(sent) = 2
    /\ value = None

\* C16: when the first reply requests no tool, generate_with_tools returns
\* its text after exactly one upstream call and no executor call.
C16_NoToolDirectText ==
    (ToolsDone /\ FirstReplied /\ replies[1].tool_calls = <<>>) =>
        /\ Len(sent) = 1
        /\ executed = <<>>
        /\ LET c == replies[1].content
           IN  IF ~c.isNone /\ c.len - c.pad > 0
                 THEN value = Text(c.len - c.pad)
                 ELSE ~Truthy(value)

C16_Witness ==
    /\ ToolsDone
    /\ api_type = "openai"
    /\ FirstReplied
    /\ replies[1].tool_calls = <<>>
    /\ Len(sent) = 1
    /\ executed = <<>>
    /\ value = Text(29)

\* C17: on a provider without tool calling, generate_with_tools(prompt,
\* system) does what generate(prompt, system) does: one upstream call with
\* the same messages and no tools, no executor call, the same result.
C17_NoToolProviderIsGenerate ==
    (/\ op = "generate_with_tools"
     /\ step = "returned"
     /\ unified_llm = "adapter"
     /\ api_type = "groq") =>
        /\ sent = << [messages |-> InitialMessages("groq", system_prompt),
                      tools |-> FALSE] >>
        /\ executed = <<>>
        /\ Len(replies) = 1
        /\ value = IF replies[1].kind = "reply"
                     THEN StripContent(replies[1].content) ELSE None

C17_Witness ==
    /\ op = "generate_with_tools"
    /\ step = "returned"
    /\ unified_llm = "adapter"
    /\ api_type = "groq"
    /\ system_prompt
    /\ Len(sent) = 1
    /\ Len(sent[1].messages) = 2
    /\ value = Text(21)

\* what the caller of generate gets from an outcome of the upstream call
CallerSees(g) == << g.ret, g.raised >>

\* C18: when the upstream call of generate fails, what the caller gets tells
\* the kind of the failure apart from a reply and from every other kind.
C18_FailureKindToldApart ==
    (/\ op = "generate"
     /\ step = "returned"
     /\ unified_llm = "adapter"
     /\ Len(replies) = 1
     /\ replies[1].kind \in ErrorKinds) =>
        \A out \in UpstreamOutcomes :
           out.kind # replies[1].kind =>
              CallerSees(UnifiedLLM_generate(unified_llm, out))
                 # << value, "none" >>

\* C19: every invocation of generate on a valid adapter issues exactly one
\* upstream call, whatever the call's outcome: k invocations, k calls.
C19_OneCallPerGenerate ==
    unified_llm = "adapter" =>
        /\ (op = "generate" /\ step = "returned") => Len(sent) = 1
        /\ (/\ step \in {"idle", "returned"}
            /\ \A k \in 1..Len(invocations) : invocations[k] = "generate")
             => issued = Len(invocations)

C19_Witness ==
    /\ unified_llm = "adapter"
    /\ invocations = << "generate", "generate" >>
    /\ step = "returned"
    /\ issued = 2
    /\ replies[1].kind = "RateLimited"
    /\ value = None

(***************************************************************************)
(* Properties of the prediction phase.                                     *)
(***************************************************************************)
\* a payload that is a complete forecast with a legal outcome and probability
WellFormed(p) ==
    /\ p.kind = "json"
    /\ p.complete
    /\ p.prediction \in {"YES", "NO"}
    /\ 0 <= p.probability /\ p.probability <= 100

\* C20: a payload whose probability is outside [0, 1] or whose prediction is
\* neither YES nor NO is rejected: its agent adds nothing to the predictions
\* handed to the debate and a failure is reported; nothing is clamped or
\* coerced, an entry carries the outcome and probability of its payload.
C20_InvalidPayloadRejected ==
    /\ [][cursor' = cursor + 1 =>
            IF WellFormed(payload')
              THEN /\ Len(agent_predictions') = Len(agent_predictions) + 1
                   /\ Last(agent_predictions').prediction = payload'.prediction
                   /\ Last(agent_predictions').probability =
                         payload'.probability
              ELSE /\ agent_predictions' = agent_predictions
                   /\ failures' = failures + 1]_vars
    /\ [](\A k \in 1..Len(agent_predictions) :
            /\ agent_predictions[k].prediction \in {"YES", "NO"}
            /\ agent_predictions[k].probability \in 0..100)
    /\ [](battle = "Returned" =>
            battle_returned.agent_predictions = agent_predictions)

C20_Witness ==
    /\ battle = "Returned"
    /\ Len(active_agents) = 2
    /\ payload.kind = "json"
    /\ payload.prediction = "YES"
    /\ payload.probability = 110
    /\ Len(battle_returned.agent_predictions) = 1
    /\ battle_returned.agent_predictions[1].agent_name = active_agents[1]

\* C21: every prediction kept by run_battle, and so every prediction handed to
\* a debate, has at least one claim in its key_facts.
C21_NoForecastWithoutClaims ==
    /\ \A k \in 1..Len(agent_predictions) :
          agent_predictions[k].key_facts >= 1
    /\ main_pc = "debate" =>
          \A k \in 1..Len(predictions) : predictions[k].key_facts >= 1

\* the agent names of a list of entries, in order
Names(entries) == [k \in 1..Len(entries) |-> entries[k].agent_name]

\* the agents whose generate_prediction returned, in the order of the calls
RECURSIVE Succeeded(_)
Succeeded(att) ==
    IF att = <<>> THEN <<>>
    ELSE (IF Head(att).raised THEN <<>> ELSE <<Head(att).agent>>)
         \o Succeeded(Tail(att))

\* C22: a failed forecast costs only its own agent: every active agent is
\* asked exactly once in order, whatever happened to the agents before it, the
\* agents kept are exactly those whose forecast did not fail, and only they
\* are in the predictions a debate takes its turns from.
C22_FailureIsolated ==
    /\ Len(attempted) = cursor
    /\ \A k \in 1..Len(attempted) : attempted[k].agent = active_agents[k]
    /\ Names(agent_predictions) = Succeeded(attempted)
    /\ (battle = "Returned" /\ active_agents # <<>>) =>
          Len(attempted) = Len(active_agents)
    /\ main_pc = "debate" => Names(predictions) = Succeeded(attempted)

C22_Witness ==
    /\ main_pc = "debate"
    /\ Len(active_agents) = 3
    /\ ~attempted[1].raised
    /\ attempted[2].raised
    /\ ~attempted[3].raised
    /\ Names(predictions) = << active_agents[1], active_agents[3] >>

\* C29: when no agent has a valid configuration, run_battle asks no agent,
\* reports one failure and returns the empty pair, and main starts no debate.
C29_NoAgentsConfigured ==
    (event_ok /\ configured = {} /\ battle # "NotStarted") =>
        /\ battle = "Returned"
        /\ attempted = <<>>
        /\ failures = 1
        /\ battle_returned = [kind |-> "battle", predictions |-> <<>>,
                              agent_predictions |-> <<>>]
        /\ main_pc \in {"battle", "exit"}
        /\ predictions = <<>>
        /\ pc = "NotStarted"

C29_Witness ==
    /\ event_ok
    /\ configured = {}
    /\ main_pc = "exit"
    /\ failures = 1
    /\ attempted = <<>>

(***************************************************************************)
(* Properties of the credentials.                                          *)
(***************************************************************************)
\* C23: a key shorter than the minimum length, or one that starts with the
\* placeholder mark your_, makes an adapter whose is_valid() is false.
C23_PlaceholderIsInvalid ==
    (api_key.len <= MinValidLen \/ api_key.head = "your_") =>
        unified_llm = "invalid"

\* the entries of API_CONFIGS whose prefix the key starts with
Recognised(key) ==
    { k \in 1..Len(API_CONFIGS) :
        key.len >= API_CONFIGS[k].plen /\ key.head = API_CONFIGS[k].prefix }

\* C24, as amended: every key gets a result; a key of fewer than 10 characters
\* gets (None, None, False); a key of at least 10 characters with a recognised
\* prefix gets the provider, default model and tool-calling flag of that
\* prefix's entry of API_CONFIGS; any other key of at least 10 characters gets
\* the fallback provider groq with tool calling disabled.
C24_DetectIsTotal ==
    /\ api_type \in {"None", "groq", "xai", "gemini", "openai"}
    /\ api_key.len < 10 =>
          /\ api_type = "None"
          /\ model = "None"
          /\ ~has_function_calling
    /\ api_key.len >= 10 =>
          /\ \A k \in Recognised(api_key) :
                /\ api_type = API_CONFIGS[k].api_type
                /\ model = API_CONFIGS[k].default_model
                /\ has_function_calling = API_CONFIGS[k].has_function_calling
          /\ Recognised(api_key) = {} =>
                /\ api_type = "groq"
                /\ model = "llama-3.3-70b-versatile"
                /\ ~has_function_calling

C24_Witness ==
    /\ api_key = [head |-> "sk-", len |-> 9]
    /\ api_type = "None"
    /\ step = "returned"

\* C24: a key with a recognised prefix gets the provider, default model and
\* tool-calling flag of that prefix, and a key of at least 10 characters
\* without one gets the fallback provider with tool calling disabled.
C24_RecognisedPrefixMapsToProvider ==
    /\ \A k \in Recognised(api_key) :
          /\ api_type = API_CONFIGS[k].api_type
          /\ model = API_CONFIGS[k].default_model
          /\ has_function_calling = API_CONFIGS[k].has_function_calling
    /\ (Recognised(api_key) = {} /\ api_key.len >= 10) =>
          /\ api_type = "groq"
          /\ ~has_function_calling

\* C25: execute_web_search never raises: without a search key, on a reply
\* other than 200 and on any exception of the request or of the formatting it
\* answers with its no-search notice, which is appended to the context as the
\* tool result while the method goes on to its next step.
C25_SearchNeverRaises ==
    (op = "generate_with_tools" /\ search # "none") =>
        /\ step \in {"tools", "second_call"}
        /\ executed # <<>>
        /\ Last(executed).name = "web_search"
        /\ (search # "ok") <=> (Last(executed).result = "no_search_api")
        /\ Last(messages).content = Last(executed).result
        /\ Last(messages).id = Last(executed).id
        /\ Last(messages).role \in {"tool", "user"}

C25_Witness ==
    /\ op = "generate_with_tools"
    /\ search = "exception"
    /\ step = "second_call"
    /\ Last(executed).result = "no_search_api"
    /\ Last(messages).content = "no_search_api"

(***************************************************************************)
(* Properties of speech and of the closing statements.                     *)
(***************************************************************************)
\* C26: in a voice debate a turn is in the transcript before it is given to
\* speech: at every moment the turns spoken are a prefix of the transcript.
C26_RecordedBeforeSpoken ==
    service = "voice" =>
        /\ Len(emitted) <= Len(transcript)
        /\ \A k \in 1..Len(emitted) : emitted[k] = transcript[k]

\* C27: in a voice debate the i-th (text, speaker) pair given to speak for an
\* agent is the i-th entry of the transcript: speech runs at most the current
\* turn ahead of the transcript and a concluded debate has spoken exactly its
\* transcript, nothing twice, nothing left out, nothing out of order.
C27_SpeechFollowsTranscript ==
    service = "voice" =>
        /\ \A k \in 1..Len(transcript) :
              k <= Len(emitted) /\ emitted[k] = transcript[k]
        /\ Len(emitted) =
              Len(transcript) + (IF at = "emitted" THEN 1 ELSE 0)
        /\ pc = "Concluded" => emitted = transcript

C27_Witness ==
    /\ service = "voice"
    /\ pc = "Concluded"
    /\ N = 3
    /\ skipped > 0
    /\ Len(transcript) = 4
    /\ emitted = transcript
    /\ transcript[1].speaker # transcript[2].speaker

\* C28: a concluded debate, text or voice, has asked every agent for one
\* closing statement after the last discussion round.
C28_EveryAgentCloses ==
    pc = "Concluded" =>
        LET closing == SelectSeq(asked, LAMBDA t : t.phase = "Closing")
        IN  /\ Len(closing) = N
            /\ \A k \in 1..N : closing[k].agent = predictions[k].agent_name
            /\ \A k \in 1..Len(asked) :
                  asked[k].phase = "Closing" => k > Len(asked) - N

(***************************************************************************)
(* Properties of clean_json.                                               *)
(***************************************************************************)
\* C30: clean_json returns a fence-free JSON payload as it is, and returns
\* exactly the payload when the payload stands in a fenced block, tagged json
\* or untagged,
\* so the forecast parsed from the answer equals the serialised forecast
\* field for field.
C30_CleanJsonRoundTrip ==
    LET body == Serialise(forecast, wrapping.indent)
    IN  /\ ~Contains(body, Fence) => clean_json(body) = body
        /\ json_step \in {"cleaned", "parsed"} => cleaned = body
        /\ json_step = "parsed" =>
              /\ parsed = forecast
              /\ \A k \in FieldNames : parsed[k] = forecast[k]

C30_Witness ==
    /\ json_step = "parsed"
    /\ wrapping.fence = "json"
    /\ wrapping.gap /\ wrapping.lead /\ wrapping.trail /\ wrapping.indent
    /\ Len(reply_text) > Len(cleaned)
    /\ parsed = forecast
    /\ forecast.probability = 70
    /\ forecast.key_facts = 3

(***************************************************************************)
(* Properties of the adapter's validity.                                   *)
(***************************************************************************)
\* C34 (as stated): is_valid() is true exactly when detect_api_type gave the
\* credential a provider identity.
C34_ValidIffDetected ==
    is_valid(unified_llm) <=> api_type # "None"

\* C34 (amended): is_valid() is true exactly when detect_api_type gave the
\* credential a provider identity and the credential is longer than 20
\* characters; detection alone needs 10 characters, so a valid adapter always
\* has an identity but a credential of 10 to 20 characters has an identity
\* and is not valid.
C34_ValidIffDetectedAndLong ==
    /\ is_valid(unified_llm) <=>
          (api_type # "None" /\ api_key.len > MinValidLen)
    /\ api_type # "None" <=> api_key.len >= MinDetectLen
    /\ is_valid(unified_llm) => api_type = detect_api_type(api_key).api_type
    /\ (api_key.len >= MinDetectLen /\ api_key.len <= MinValidLen) =>
          (api_type # "None" /\ ~is_valid(unified_llm))

C34_Witness ==
    /\ api_key = [head |-> "AIza", len |-> 20]
    /\ api_type = "gemini"
    /\ ~is_valid(unified_llm)
    /\ op = "generate"
    /\ step = "returned"

\* C37: an adapter whose is_valid() is false never issues an upstream call:
\* generate, generate_json and generate_with_tools return None at once, also
\* for a credential of 10 to 20 characters, which has a provider identity.
C37_InvalidAdapterIssuesNoCall ==
    ~is_valid(unified_llm) =>
        /\ issued = 0
        /\ sent = <<>>
        /\ replies = <<>>
        /\ step \notin {"first_call", "tools", "second_call", "json_call"}
        /\ step = "returned" => value = None

C37_Witness ==
    /\ api_key = [head |-> "sk-", len |-> 20]
    /\ api_type = "openai"
    /\ ~is_valid(unified_llm)
    /\ invocations = << "generate_with_tools", "generate_json" >>
    /\ step = "returned"
    /\ value = None
    /\ issued = 0

(***************************************************************************)
(* Properties of _setup_llm.                                               *)
(***************************************************************************)
\* the positions, in the order GEMINI_API_KEY, CHATGPT_GROQ_KEY,
\* GROK_GROQ_KEY, OPENAI_API_KEY, of the names whose value is longer than 20
\* characters
LongValued ==
    LET order == << "GEMINI_API_KEY", "CHATGPT_GROQ_KEY", "GROK_GROQ_KEY",
                    "OPENAI_API_KEY" >>
    IN  SelectSeq(order, LAMBDA n : env[n] # Unset /\ env[n].len > 20)

\* C39: _setup_llm keeps the adapter of the first name, in the order
\* GEMINI_API_KEY, CHATGPT_GROQ_KEY, GROK_GROQ_KEY, OPENAI_API_KEY, whose
\* value is longer than 20 characters and constructs no adapter for a later
\* name; without such a name the debate LLM is None.  After setup the debate
\* LLM is None or an adapter whose is_valid() holds.
C39_FirstLongKeySelected ==
    /\ setup_pc = "done" =>
          /\ llm \in {"None", "adapter"}
          /\ IF LongValued = <<>>
               THEN llm = "None" /\ tried = <<>>
               ELSE /\ llm = "adapter"
                    /\ tried = << LongValued[1] >>
                    /\ llm_key = env[LongValued[1]]
                    /\ UnifiedLLM_is_valid(llm_key,
                                           detect_api_type(llm_key).api_type)
    /\ Len(tried) <= 1

C39_Witness ==
    /\ setup_pc = "done"
    /\ env["GEMINI_API_KEY"] = [head |-> "AIza", len |-> 20]
    /\ env["CHATGPT_GROQ_KEY"] = Unset
    /\ env["GROK_GROQ_KEY"] = [head |-> "gsk_", len |-> 21]
    /\ env["OPENAI_API_KEY"] = [head |-> "", len |-> 21]
    /\ tried = << "GROK_GROQ_KEY" >>
    /\ llm = "adapter"
    /\ llm_key = [head |-> "gsk_", len |-> 21]

(***************************************************************************)
(* Properties of the retries of a turn.                                    *)
(***************************************************************************)
OtherErrors == ErrorKinds \ {"RateLimited"}

\* C32: a generation call that fails with an error other than a rate limit
\* is followed by a short fixed wait and one retry; when the retry fails in
\* the same way the turn ends as skipped.
C32_OtherFailureRetriedOnce ==
    [][(at = "attempt" /\ calls' = calls + 1 /\ upstream' \in OtherErrors) =>
         IF upstream \in OtherErrors
           THEN at' = "returned" /\ response' = None
           ELSE attempt + 1 < max_attempts =>
                   (slept' = Append(slept, ErrorSleep) /\ at' = "attempt")]_vars

\* C33: the waits after the rate-limited attempts of a turn are 5 s, then
\* 10 s; every turn starts again at 5 s and no wait follows the last attempt.
C33_LinearWaits ==
    LET waits == SelectSeq(slept, LAMBDA d : d # ErrorSleep)
    IN  /\ \A k \in 1..Len(waits) : waits[k] = InitialWait + WaitStep * (k - 1)
        /\ Len(waits) <= max_attempts - 1
        /\ at = "prompt" => wait_time = InitialWait
        /\ (at = "attempt" /\ upstream = "RateLimited") => waits # <<>>

(***************************************************************************)
(* Properties of the history and of the transcript.                        *)
(***************************************************************************)
\* C35: the history in the prompt of a reacting turn is the last 6 (text
\* debate) or the last 4 (voice debate) recorded discussion turns in their
\* recorded order, and the placeholder when nothing is recorded; it is never
\* longer than that and is not the whole transcript once the transcript is
\* longer.
C35_HistoryIsBoundedSuffix ==
    (/\ pc = "Discussing"
     /\ at \in {"attempt", "returned", "emitted"}
     /\ prompt.kind = "react") =>
        LET bound == IF service = "text" THEN 6 ELSE 4
            h == prompt.history
            offset == Len(transcript) - Len(h)
        IN  /\ prompt.placeholder <=> transcript = <<>>
            /\ Len(h) = (IF Len(transcript) <= bound THEN Len(transcript)
                                                     ELSE bound)
            /\ \A k \in 1..Len(h) : h[k] = transcript[offset + k]
            /\ Len(transcript) > bound => h # transcript

C35_Witness ==
    /\ service = "text"
    /\ pc = "Discussing"
    /\ at = "attempt"
    /\ prompt.kind = "react"
    /\ Len(transcript) = 7
    /\ Len(prompt.history) = 6
    /\ prompt.history[1] = transcript[2]
    /\ prompt.history[1].speaker # transcript[1].speaker

\* tr is seq with zero or more entries put behind it
IsPrefix(seq, tr) ==
    Len(seq) <= Len(tr) /\ SubSeq(tr, 1, Len(seq)) = seq

\* C36: the transcript only grows: every step leaves it as it is or puts one
\* entry behind it, so an earlier transcript is a prefix of every later one;
\* the only step that appends is the run's own recording of the current
\* turn, and the run returns the transcript it built.
C36_TranscriptAppendOnly ==
    [][/\ IsPrefix(transcript, transcript')
       /\ transcript' # transcript =>
             /\ pc \in {"Discussing", "Closing"}
             /\ at = "emitted"
             /\ Len(transcript') = Len(transcript) + 1
             /\ Last(transcript').speaker = predictions[idx].agent_name
             /\ Last(transcript').text = response.len
       /\ pc' = "Concluded" => returned'.transcript = transcript']_vars

C36_Witness ==
    /\ pc = "Concluded"
    /\ N = 2
    /\ Len(transcript) = 4
    /\ skipped > 0
    /\ returned.transcript = transcript

\* C38: the opening prompt goes to the first agent of round 1 and to no other
\* turn, whatever has been recorded: when that turn is skipped nobody gets
\* it, and the next agent gets the reaction prompt with the placeholder for
\* a history.
C38_OpeningOnlyForFirstTurn ==
    (pc = "Discussing" /\ at \in {"attempt", "returned", "emitted"}) =>
        /\ prompt.kind = "open" <=> (round_num = 1 /\ idx = 1)
        /\ prompt.kind \in {"open", "react"}
        /\ (prompt.kind = "react" /\ transcript = <<>>) =>
              (prompt.placeholder /\ prompt.history = <<>>)

C38_Witness ==
    /\ pc = "Discussing"
    /\ llm = "adapter"
    /\ round_num = 1
    /\ idx = 2
    /\ at = "attempt"
    /\ skipped = 1
    /\ transcript = <<>>
    /\ prompt.kind = "react"
    /\ prompt.placeholder

\* C40: closing statements go into the transcript and not into the
\* conversation history: during the discussion rounds the two hold the same
\* turns in the same order, a closing turn leaves the history as it is, and
\* in the end the transcript is the history followed by the closing
\* statements recorded.
C40_ClosingNotInHistory ==
    /\ [](/\ pc \in {"Opening", "Discussing"} =>
                conversation_history = transcript
           /\ IsPrefix(conversation_history, transcript)
           /\ Len(transcript) - Len(conversation_history) <=
                Len(SelectSeq(asked, LAMBDA t : t.phase = "Closing")))
    /\ [][pc = "Closing" =>
            /\ conversation_history' = conversation_history
            /\ transcript' # transcript =>
                  Last(transcript').speaker = predictions[idx].agent_name]_vars

C40_Witness ==
    /\ service = "text"
    /\ pc = "Concluded"
    /\ N = 2
    /\ Len(conversation_history) = 3
    /\ Len(transcript) = 5
    /\ SubSeq(transcript, 1, 3) = conversation_history

(***************************************************************************)
(* Properties of the prediction phase.                                     *)
(***************************************************************************)
\* C31: no cross-leakage in the prediction phase: the prompt of an agent is
\* made of the event and of that agent's own research result and of nothing
\* else, whatever the agents before it returned and whether they failed, so
\* no agent's result can change another agent's input.
C31_NoCrossLeakage ==
    attempted # <<>> =>
        /\ \E c \in {"skipped", "failed", "results"} :
              agent_prompt = [agent |-> Last(attempted).agent,
                              event |-> "event", context |-> c]
        /\ DOMAIN agent_prompt = {"agent", "event", "context"}

C31_Witness ==
    /\ Len(attempted) = 3
    /\ attempted[1].raised
    /\ ~attempted[2].raised
    /\ agent_predictions # <<>>
    /\ agent_prompt = [agent |-> active_agents[3], event |-> "event",
                       context |-> "results"]
====
